---- MODULE Spec2Model ----
(***************************************************************************)
(* The conversion layer of the gateway's configuration engine              *)
(* (crates/agentgateway/src/types/agent_xds.rs): every TryFrom that turns  *)
(* a wire (control-plane) entity into a runtime entity.                    *)
(*                                                                         *)
(* A wire message is received (Init draws it from a bounded set) and the   *)
(* conversion for its type is applied to it (one action per TryFrom impl). *)
(* Text that the code takes apart (service keys, regex patterns) is a      *)
(* sequence of one-character strings; text that is only copied is a        *)
(* string.  Option<T> is a sequence of length at most one.  A Result is a  *)
(* record tagged "Ok" or "Err"; a Rust panic is the outcome tagged "Panic".*)
(*                                                                         *)
(* The web-login subsystem (crates/agentgateway/src/auth) follows: session *)
(* tokens, the authentication and CSRF middleware, the login form and the  *)
(* OAuth2 callback, each handler one action over a client's cookie jar.    *)
(***************************************************************************)
EXTENDS Integers, Sequences, FiniteSets, TLC

\* ------------------------------------------------------------------ bounds
\* Longest service key ("namespace/hostname") drawn as input.
MaxKeyLen == 3
\* Longest regex pattern drawn as input.
MaxPatLen == 2
MaxRequests == 7
MaxFills == 2

\* `as u16` keeps the low 16 bits: the value modulo 2^16.
U16 == 65536

VARIABLES wire, result, graph, request, bucket, callers, readers, now, client, http
vars == <<wire, result, graph, request, bucket, callers, readers, now, client, http>>

\* ------------------------------------------------------------ Option/Result
None == <<>>
Some(x) == <<x>>
IsSome(o) == Len(o) = 1
Unwrap(o) == o[1]

Ok(v) == [tag |-> "Ok", val |-> v]
Err(variant, msg) == [tag |-> "Err", err |-> [variant |-> variant, msg |-> msg]]
Panic == [tag |-> "Panic"]
Pending == [tag |-> "Pending"]

IsOk(r) == r.tag = "Ok"
IsErr(r) == r.tag = "Err"

\* `x as u16`
AsU16(x) == x % U16

\* default_as_none: the type's default value ("" or 0) means absent.
default_as_none(i, dflt) == IF i = dflt THEN None ELSE Some(i)

\* format!("{e}") of a ProtoError: the text of the variant followed by its payload.
DisplayErr(e) == <<e.variant>> \o e.msg

\* .map(f).collect::<Result<Vec<_>, _>>(): the first element that does not convert
\* ends the collection with its outcome; otherwise the converted values in order.
RECURSIVE CollectFrom(_, _, _)
CollectFrom(rs, i, acc) ==
  IF i > Len(rs) THEN Ok(acc)
  ELSE IF ~IsOk(rs[i]) THEN rs[i]
  ELSE CollectFrom(rs, i + 1, Append(acc, rs[i].val))
Collect(rs) == CollectFrom(rs, 1, <<>>)

Elems(seq) == {seq[i] : i \in 1..Len(seq)}

StartsWith(path, prefix) ==
  Len(prefix) <= Len(path) /\ SubSeq(path, 1, Len(prefix)) = prefix

SeqsUpTo(S, n) == UNION {[1..k -> S] : k \in 0..n}

\* ------------------------------------------------------------------ TLS
\* parse_cert / parse_key accept PEM text only; the server context is built
\* from the chain and the key and offers http/1.1 alone.
TLSConfigTryFrom(value) ==
  IF value.cert # "pem" THEN Err("Anyhow", <<"no certificate">>)
  ELSE IF value.private_key # "pem" THEN Err("Anyhow", <<"no key">>)
  ELSE Ok([cert_chain |-> value.cert, private_key |-> value.private_key,
           alpn_protocols |-> <<"http/1.1">>])

\* ------------------------------------------------------------- Listener
\* proto::agent::Protocol::try_from(i32): a number the enum does not define
\* ("Unrecognized") is a decode error.
ProtocolTryFrom(p) ==
  IF p = "Unrecognized" THEN Err("EnumDecode", <<"Protocol">>) ELSE Ok(p)

TlsText(tls) == IF IsSome(tls) THEN "tls" ELSE "no tls config"

\* Mutant: the Http arm no longer looks at the TLS config.
ListenerProtocolTryFrom_HttpIgnoresTls(proto, tls) ==
  LET built == TLSConfigTryFrom(Unwrap(tls))
      wrapped(kind) == IF IsOk(built) THEN Ok([kind |-> kind, tls |-> Some(built.val)])
                       ELSE Err("Generic", DisplayErr(built.err))
  IN CASE proto = "Unknown" -> Err("EnumParse", <<"unknown protocol">>)
       [] proto = "Http" -> Ok([kind |-> "HTTP", tls |-> None])
       [] proto = "Https" /\ IsSome(tls) -> wrapped("HTTPS")
       [] proto = "Tls" /\ IsSome(tls) -> wrapped("TLS")
       [] proto = "Tcp" /\ ~IsSome(tls) -> Ok([kind |-> "TCP", tls |-> None])
       [] proto = "Hbone" /\ ~IsSome(tls) -> Ok([kind |-> "HBONE", tls |-> None])
       [] OTHER -> Err("Generic",
                       <<"protocol", proto, "is incompatible with", TlsText(tls)>>)

\* Mutant: an incompatible pair is reported like an unknown protocol.
ListenerProtocolTryFrom_MismatchAsUnknown(proto, tls) ==
  LET built == TLSConfigTryFrom(Unwrap(tls))
      wrapped(kind) == IF IsOk(built) THEN Ok([kind |-> kind, tls |-> Some(built.val)])
                       ELSE Err("Generic", DisplayErr(built.err))
  IN CASE proto = "Http" /\ ~IsSome(tls) -> Ok([kind |-> "HTTP", tls |-> None])
       [] proto = "Https" /\ IsSome(tls) -> wrapped("HTTPS")
       [] proto = "Tls" /\ IsSome(tls) -> wrapped("TLS")
       [] proto = "Tcp" /\ ~IsSome(tls) -> Ok([kind |-> "TCP", tls |-> None])
       [] proto = "Hbone" /\ ~IsSome(tls) -> Ok([kind |-> "HBONE", tls |-> None])
       [] OTHER -> Err("EnumParse", <<"unknown protocol">>)

ListenerProtocolTryFrom(proto, tls) ==
  LET built == TLSConfigTryFrom(Unwrap(tls))
      wrapped(kind) == IF IsOk(built) THEN Ok([kind |-> kind, tls |-> Some(built.val)])
                       ELSE Err("Generic", DisplayErr(built.err))
  IN CASE proto = "Unknown" -> Err("EnumParse", <<"unknown protocol">>)
       [] proto = "Http" /\ ~IsSome(tls) -> Ok([kind |-> "HTTP", tls |-> None])
       [] proto = "Https" /\ IsSome(tls) -> wrapped("HTTPS")
       [] proto = "Tls" /\ IsSome(tls) -> wrapped("TLS")
       [] proto = "Tcp" /\ ~IsSome(tls) -> Ok([kind |-> "TCP", tls |-> None])
       [] proto = "Hbone" /\ ~IsSome(tls) -> Ok([kind |-> "HBONE", tls |-> None])
       [] OTHER -> Err("Generic",
                       <<"protocol", proto, "is incompatible with", TlsText(tls)>>)

ListenerTryFrom(s) ==
  LET proto == ProtocolTryFrom(s.protocol)
      protocol == ListenerProtocolTryFrom(proto.val, s.tls)
  IN IF ~IsOk(proto) THEN proto
     ELSE IF ~IsOk(protocol) THEN Err("Generic", DisplayErr(protocol.err))
     ELSE Ok(<<[key |-> s.key, name |-> s.name, hostname |-> s.hostname,
                protocol |-> protocol.val, gateway_name |-> s.gateway_name,
                routes |-> {}, tcp_routes |-> {}],
               s.bind_key>>)

\* ----------------------------------------------------------------- Bind
BindTryFrom(s) ==
  Ok([key |-> s.key,
      address |-> [ip |-> <<0, 0, 0, 0>>, port |-> AsU16(s.port)],
      listeners |-> {}])

\* ------------------------------------------------------ service references
\* str::split_once('/'): the text before and the text after the first '/'.
HasSlash(s) == \E i \in 1..Len(s) : s[i] = "/"
FirstSlash(s) == CHOOSE i \in 1..Len(s) : s[i] = "/" /\ \A j \in 1..(i - 1) : s[j] # "/"
\* Mutant: the key is split at its last '/'.
LastSlash(s) == CHOOSE i \in 1..Len(s) : s[i] = "/" /\ \A j \in (i + 1)..Len(s) : s[j] # "/"
split_once_Last(s) ==
  IF HasSlash(s)
  THEN Some(<<SubSeq(s, 1, LastSlash(s) - 1), SubSeq(s, LastSlash(s) + 1, Len(s))>>)
  ELSE None

split_once(s) ==
  IF HasSlash(s)
  THEN Some(<<SubSeq(s, 1, FirstSlash(s) - 1), SubSeq(s, FirstSlash(s) + 1, Len(s))>>)
  ELSE None

\* The "namespace/hostname" key of a Service reference.
NamespacedHostnameParse(svc_key) ==
  LET parts == split_once(svc_key)
  IN IF IsSome(parts)
     THEN Ok([namespace |-> Unwrap(parts)[1], hostname |-> Unwrap(parts)[2]])
     ELSE Err("NamespacedHostnameParse", svc_key)

\* BackendReference / SimpleBackendReference values.
Invalid == [ref |-> "Invalid"]
BackendRef(name) == [ref |-> "Backend", name |-> name]
ServiceRef(ns, port) == [ref |-> "Service", name |-> ns, port |-> port]

\* A Service reference: the parsed key and the port cast to u16.
ServiceReference(svc_key, port) ==
  LET ns == NamespacedHostnameParse(svc_key)
  IN IF ~IsOk(ns) THEN ns ELSE Ok(ServiceRef(ns.val, AsU16(port)))

\* --------------------------------------------------------------- filters
\* uri::Scheme::try_from(&str)
ValidSchemes == {"http", "https"}
SchemeTryFrom(s) ==
  IF s \in ValidSchemes THEN Ok(s) ELSE Err("InvalidUri", <<"scheme">>)

\* StatusCode::from_u16: only 100..=999 are status codes.
StatusCodeFromU16(x) ==
  IF x >= 100 /\ x < 1000 THEN Ok(x) ELSE Err("InvalidStatusCode", <<>>)

\* HeaderValue::from_bytes rejects control bytes; HeaderName::from_bytes rejects
\* the empty name and bytes that are not token characters.
InvalidHeaderValues == {"line\nbreak"}
InvalidHeaderNames == {"", "bad name"}
HeaderValueFromBytes(v) ==
  IF v \in InvalidHeaderValues THEN Err("InvalidHeaderValue", <<>>) ELSE Ok(v)
HeaderNameFromBytes(n) ==
  IF n \in InvalidHeaderNames THEN Err("InvalidHeaderName", <<>>) ELSE Ok(n)

HeaderModifier(rhm) ==
  [add |-> [i \in 1..Len(rhm.add) |-> <<rhm.add[i].name, rhm.add[i].value>>],
   set |-> [i \in 1..Len(rhm.set) |-> <<rhm.set[i].name, rhm.set[i].value>>],
   remove |-> rhm.remove]

\* The authority of a redirect, from the host and the port with "" and 0 absent.
\* NonZeroU16::new(p as u16).unwrap() panics when the low 16 bits of p are zero.
RedirectAuthority(rd) ==
  LET h == default_as_none(rd.host, "")
      p == default_as_none(rd.port, 0)
  IN IF IsSome(h) /\ IsSome(p)
     THEN Ok(Some([kind |-> "Full", host |-> Unwrap(h), port |-> Unwrap(p)]))
     ELSE IF IsSome(p)
     THEN (IF AsU16(Unwrap(p)) = 0 THEN Panic
           ELSE Ok(Some([kind |-> "Port", port |-> AsU16(Unwrap(p))])))
     ELSE IF IsSome(h)
     THEN Ok(Some([kind |-> "Host", host |-> Unwrap(h)]))
     ELSE Ok(None)

\* PathRedirect::Full / PathRedirect::Prefix, kept as given.
PathRedirect(path) ==
  IF IsSome(path) THEN Some([kind |-> Unwrap(path).kind, path |-> Unwrap(path).path])
  ELSE None

RequestRedirectTryFrom(rd) ==
  LET s == default_as_none(rd.scheme, "")
      scheme == IF IsSome(s) THEN SchemeTryFrom(Unwrap(s)) ELSE Ok("")
      authority == RedirectAuthority(rd)
      st == default_as_none(rd.status, 0)
      status == IF IsSome(st) THEN StatusCodeFromU16(AsU16(Unwrap(st))) ELSE Ok(0)
  IN IF ~IsOk(scheme) THEN scheme
     ELSE IF ~IsOk(authority) THEN authority
     ELSE IF ~IsOk(status) THEN status
     ELSE Ok([filter |-> "RequestRedirect",
              scheme |-> IF IsSome(s) THEN Some(scheme.val) ELSE None,
              authority |-> authority.val,
              path |-> PathRedirect(rd.path),
              status |-> IF IsSome(st) THEN Some(status.val) ELSE None])

UrlRewriteTryFrom(rw) ==
  LET h == default_as_none(rw.host, "")
  IN Ok([filter |-> "UrlRewrite",
         authority |-> IF IsSome(h) THEN Some([kind |-> "Host", host |-> Unwrap(h)])
                       ELSE None,
         path |-> PathRedirect(rw.path)])

\* The mirror's backend: unset is kept as Invalid, a Service key is parsed.
RequestMirrorTryFrom(m) ==
  LET backend == IF m.ref = "Unset" THEN Ok(Invalid)
                 ELSE ServiceReference(m.key, m.port)
  IN IF ~IsOk(backend) THEN backend
     ELSE Ok([filter |-> "RequestMirror", backend |-> backend.val,
              percentage |-> [num |-> m.percentage, den |-> 100]])

DirectResponseTryFrom(m) ==
  LET status == StatusCodeFromU16(AsU16(m.status))
  IN IF ~IsOk(status) THEN status
     ELSE Ok([filter |-> "DirectResponse", body |-> m.body, status |-> status.val])

\* http::cors::Cors::try_from(CorsSerde): the lists become header values.
CorsTryFrom(c) ==
  IF \E i \in 1..Len(c.allow_origins) : c.allow_origins[i] \in InvalidHeaderValues
  THEN Err("Generic", <<"InvalidHeaderValue">>)
  ELSE Ok([filter |-> "CORS", allow_credentials |-> c.allow_credentials,
           allow_origins |-> c.allow_origins, max_age |-> c.max_age])

RouteFilterTryFrom(s) ==
  CASE s.kind = "Unset" -> Err("Generic", <<"invalid route filter">>)
    [] s.kind = "RequestHeaderModifier" ->
         Ok([filter |-> "RequestHeaderModifier", modifier |-> HeaderModifier(s)])
    [] s.kind = "RequestRedirect" -> RequestRedirectTryFrom(s)
    [] s.kind = "UrlRewrite" -> UrlRewriteTryFrom(s)
    [] s.kind = "ResponseHeaderModifier" ->
         Ok([filter |-> "ResponseHeaderModifier", modifier |-> HeaderModifier(s)])
    [] s.kind = "RequestMirror" -> RequestMirrorTryFrom(s)
    [] s.kind = "DirectResponse" -> DirectResponseTryFrom(s)
    [] s.kind = "Cors" -> CorsTryFrom(s)

FiltersTryFrom(filters) ==
  Collect([i \in 1..Len(filters) |-> RouteFilterTryFrom(filters[i])])

\* ---------------------------------------------------------- RouteBackend
\* Mutant: an unset reference kind is rejected as a missing field.
RouteBackendKind_UnsetRejected(s) ==
  CASE s.ref = "Unset" -> Err("MissingRequiredField", <<>>)
    [] s.ref = "Backend" -> Ok(BackendRef(s.key))
    [] s.ref = "Service" -> ServiceReference(s.key, s.port)

\* Mutant: a backend reference is replaced by a default backend's name.
RouteBackendKind_DefaultName(s) ==
  CASE s.ref = "Unset" -> Ok(Invalid)
    [] s.ref = "Backend" -> Ok(BackendRef(<<"s", "v", "c", "A">>))
    [] s.ref = "Service" -> ServiceReference(s.key, s.port)

RouteBackendKind(s) ==
  CASE s.ref = "Unset" -> Ok(Invalid)
    [] s.ref = "Backend" -> Ok(BackendRef(s.key))
    [] s.ref = "Service" -> ServiceReference(s.key, s.port)

\* The weight is widened to usize, which keeps its value.
RouteBackendTryFrom(s) ==
  LET kind == RouteBackendKind(s)
      filters == FiltersTryFrom(s.filters)
  IN IF ~IsOk(kind) THEN kind
     ELSE IF ~IsOk(filters) THEN filters
     ELSE Ok([weight |-> s.weight, backend |-> kind.val, filters |-> filters.val])

\* ------------------------------------------------------------- McpTarget
\* proto::agent::mcp_target::Protocol::try_from(i32)
McpProtocolTryFrom(p) ==
  IF p = "Unrecognized" THEN Err("EnumDecode", <<"mcp_target.Protocol">>) ELSE Ok(p)

\* Mutant: an unset protocol falls to the Sse arm.
McpTargetSpec_UndefinedAsSse(proto, backend) ==
  CASE proto \in {"Sse", "Undefined"} ->
         [kind |-> "Sse", backend |-> backend, path |-> "/sse"]
    [] proto = "StreamableHttp" ->
         [kind |-> "Mcp", backend |-> backend, path |-> "/mcp"]

McpTargetSpec(proto, backend) ==
  CASE proto = "Sse" -> [kind |-> "Sse", backend |-> backend, path |-> "/sse"]
    [] proto \in {"Undefined", "StreamableHttp"} ->
         [kind |-> "Mcp", backend |-> backend, path |-> "/mcp"]

McpTargetTryFrom(s) ==
  LET proto == McpProtocolTryFrom(s.protocol)
      backend == CASE s.ref = "Unset" -> Ok(Invalid)
                   [] s.ref = "Backend" -> Ok(BackendRef(s.key))
                   [] s.ref = "Service" -> ServiceReference(s.key, s.port)
  IN IF ~IsOk(proto) THEN proto
     ELSE IF ~IsOk(backend) THEN backend
     ELSE Ok([name |-> s.name, spec |-> McpTargetSpec(proto.val, backend.val)])

\* ------------------------------------------------------------ RouteMatch
\* regex::Regex::new: a pattern whose groups are not balanced does not compile.
RECURSIVE GroupsBalanced(_, _, _)
GroupsBalanced(p, i, depth) ==
  IF i > Len(p) THEN depth = 0
  ELSE IF p[i] = "(" THEN GroupsBalanced(p, i + 1, depth + 1)
  ELSE IF p[i] = ")" THEN depth > 0 /\ GroupsBalanced(p, i + 1, depth - 1)
  ELSE GroupsBalanced(p, i + 1, depth)
RegexNew(p) ==
  IF GroupsBalanced(p, 1, 0) THEN Ok([compiled |-> p]) ELSE Err("Regex", p)

\* Mutant: the pattern is stored as given and left to be compiled when first used.
PathMatchTryFrom_LazyRegex(path) ==
  IF ~IsSome(path) THEN Ok([kind |-> "PathPrefix", value |-> <<"/">>])
  ELSE LET k == Unwrap(path)
       IN CASE k.kind = "PathPrefix" -> Ok([kind |-> "PathPrefix", value |-> k.value])
            [] k.kind = "Exact" -> Ok([kind |-> "Exact", value |-> k.value])
            [] k.kind = "Regex" ->
                 Ok([kind |-> "Regex", regex |-> [compiled |-> k.value],
                     pattern_len |-> Len(k.value)])
            [] k.kind = "Unset" -> Err("Generic", <<"invalid path match">>)

\* Mutant: an exact path is stored as a prefix.
PathMatchTryFrom_ExactAsPrefix(path) ==
  IF ~IsSome(path) THEN Ok([kind |-> "PathPrefix", value |-> <<"/">>])
  ELSE LET k == Unwrap(path)
           re == RegexNew(k.value)
       IN CASE k.kind = "PathPrefix" -> Ok([kind |-> "PathPrefix", value |-> k.value])
            [] k.kind = "Exact" -> Ok([kind |-> "PathPrefix", value |-> k.value])
            [] k.kind = "Regex" ->
                 IF ~IsOk(re) THEN re
                 ELSE Ok([kind |-> "Regex", regex |-> re.val,
                          pattern_len |-> Len(k.value)])
            [] k.kind = "Unset" -> Err("Generic", <<"invalid path match">>)

\* Mutant: the length of the pattern is not recorded.
PathMatchTryFrom_NoLength(path) ==
  IF ~IsSome(path) THEN Ok([kind |-> "PathPrefix", value |-> <<"/">>])
  ELSE LET k == Unwrap(path)
           re == RegexNew(k.value)
       IN CASE k.kind = "PathPrefix" -> Ok([kind |-> "PathPrefix", value |-> k.value])
            [] k.kind = "Exact" -> Ok([kind |-> "Exact", value |-> k.value])
            [] k.kind = "Regex" ->
                 IF ~IsOk(re) THEN re
                 ELSE Ok([kind |-> "Regex", regex |-> re.val,
                          pattern_len |-> 0])
            [] k.kind = "Unset" -> Err("Generic", <<"invalid path match">>)

PathMatchTryFrom(path) ==
  IF ~IsSome(path) THEN Ok([kind |-> "PathPrefix", value |-> <<"/">>])
  ELSE LET k == Unwrap(path)
           re == RegexNew(k.value)
       IN CASE k.kind = "PathPrefix" -> Ok([kind |-> "PathPrefix", value |-> k.value])
            [] k.kind = "Exact" -> Ok([kind |-> "Exact", value |-> k.value])
            [] k.kind = "Regex" ->
                 IF ~IsOk(re) THEN re
                 ELSE Ok([kind |-> "Regex", regex |-> re.val,
                          pattern_len |-> Len(k.value)])
            [] k.kind = "Unset" -> Err("Generic", <<"invalid path match">>)

HeaderMatchTryFrom(h) ==
  IF ~IsSome(h.value) THEN Err("Generic", <<"invalid header match value">>)
  ELSE LET v == Unwrap(h.value)
           name == HeaderNameFromBytes(h.name)
           exact == HeaderValueFromBytes(v.exact)
           re == RegexNew(v.regex)
       IN IF ~IsOk(name) THEN name
          ELSE IF v.kind = "Exact"
          THEN (IF ~IsOk(exact) THEN exact
                ELSE Ok([name |-> name.val,
                         value |-> [kind |-> "Exact", exact |-> exact.val]]))
          ELSE (IF ~IsOk(re) THEN re
                ELSE Ok([name |-> name.val,
                         value |-> [kind |-> "Regex", regex |-> re.val]]))

QueryMatchTryFrom(q) ==
  IF ~IsSome(q.value) THEN Err("Generic", <<"invalid query match value">>)
  ELSE LET v == Unwrap(q.value)
           re == RegexNew(v.regex)
       IN IF v.kind = "Exact"
          THEN Ok([name |-> q.name, value |-> [kind |-> "Exact", exact |-> v.exact]])
          ELSE (IF ~IsOk(re) THEN re
                ELSE Ok([name |-> q.name,
                         value |-> [kind |-> "Regex", regex |-> re.val]]))

RouteMatchTryFrom(s) ==
  LET path == PathMatchTryFrom(s.path)
      method == IF IsSome(s.method) THEN Some([method |-> Unwrap(s.method).exact])
                ELSE None
      headers == Collect([i \in 1..Len(s.headers) |-> HeaderMatchTryFrom(s.headers[i])])
      query ==
        Collect([i \in 1..Len(s.query_params) |-> QueryMatchTryFrom(s.query_params[i])])
  IN IF ~IsOk(path) THEN path
     ELSE IF ~IsOk(headers) THEN headers
     ELSE IF ~IsOk(query) THEN query
     ELSE Ok([headers |-> headers.val, path |-> path.val, method |-> method,
              query |-> query.val])

\* --------------------------------------------------------- TrafficPolicy
\* A wire Duration (whole seconds here) converts unless it is negative.
DurationTryFrom(d) == IF d < 0 THEN Err("Duration", <<>>) ELSE Ok(d)

OptDurationTryFrom(o) ==
  LET d == DurationTryFrom(Unwrap(o))
  IN IF ~IsSome(o) THEN Ok(None)
     ELSE IF ~IsOk(d) THEN d
     ELSE Ok(Some(d.val))

TrafficPolicyTryFrom(s) ==
  LET req == OptDurationTryFrom(s.request_timeout)
      backend == OptDurationTryFrom(s.backend_request_timeout)
  IN IF ~IsOk(req) THEN req
     ELSE IF ~IsOk(backend) THEN backend
     ELSE Ok([timeout |-> [request_timeout |-> req.val,
                           backend_request_timeout |-> backend.val],
              retry |-> None])

\* ----------------------------------------------------------------- Route
RouteTryFrom(s) ==
  LET matches == Collect([i \in 1..Len(s.matches) |-> RouteMatchTryFrom(s.matches[i])])
      filters == FiltersTryFrom(s.filters)
      backends ==
        Collect([i \in 1..Len(s.backends) |-> RouteBackendTryFrom(s.backends[i])])
      tp == TrafficPolicyTryFrom(Unwrap(s.traffic_policy))
      policies == IF ~IsSome(s.traffic_policy) THEN Ok(None)
                  ELSE IF ~IsOk(tp) THEN tp
                  ELSE Ok(Some(tp.val))
  IN IF ~IsOk(matches) THEN matches
     ELSE IF ~IsOk(filters) THEN filters
     ELSE IF ~IsOk(backends) THEN backends
     ELSE IF ~IsOk(policies) THEN policies
     ELSE Ok(<<[key |-> s.key, route_name |-> s.route_name,
                rule_name |-> default_as_none(s.rule_name, ""),
                hostnames |-> s.hostnames, matches |-> matches.val,
                filters |-> filters.val, backends |-> backends.val,
                policies |-> policies.val],
               s.listener_key>>)

\* --------------------------------------------------------------- Backend
\* Target::try_from((host, port)): an IP literal becomes an address, any other
\* text is kept as a hostname.
IpLiterals == {"10.0.0.1"}
TargetTryFrom(host, port) ==
  IF host \in IpLiterals THEN Ok([kind |-> "Address", host |-> host, port |-> port])
  ELSE Ok([kind |-> "Hostname", host |-> host, port |-> port])

\* Mutant: a missing model is replaced by the empty default.
BedrockTryFrom_DefaultModel(bedrock) ==
  Ok([provider |-> "Bedrock",
      model |-> IF IsSome(bedrock.model) THEN Unwrap(bedrock.model) ELSE "",
      region |-> bedrock.region])

BedrockTryFrom(bedrock) ==
  IF ~IsSome(bedrock.model) THEN Err("Generic", <<"bedrock requires a model">>)
  ELSE Ok([provider |-> "Bedrock", model |-> Unwrap(bedrock.model),
           region |-> bedrock.region])

AIProviderTryFrom(provider) ==
  IF ~IsSome(provider) THEN Err("Generic", <<"AI backend provider is required">>)
  ELSE LET pr == Unwrap(provider)
       IN CASE pr.provider = "Openai" -> Ok([provider |-> "OpenAI", model |-> pr.model])
            [] pr.provider = "Gemini" -> Ok([provider |-> "Gemini", model |-> pr.model])
            [] pr.provider = "Vertex" ->
                 Ok([provider |-> "Vertex", model |-> pr.model,
                     region |-> Some(pr.region), project_id |-> pr.project_id])
            [] pr.provider = "Anthropic" ->
                 Ok([provider |-> "Anthropic", model |-> pr.model])
            [] pr.provider = "Bedrock" -> BedrockTryFrom(pr)

AIBackendTryFrom(a) ==
  LET o == TargetTryFrom(Unwrap(a.override).host, AsU16(Unwrap(a.override).port))
      host_override == IF ~IsSome(a.override) THEN Ok(None)
                       ELSE IF ~IsOk(o) THEN Err("Generic", DisplayErr(o.err))
                       ELSE Ok(Some(o.val))
      provider == AIProviderTryFrom(a.provider)
  IN IF ~IsOk(host_override) THEN host_override
     ELSE IF ~IsOk(provider) THEN provider
     ELSE Ok([host_override |-> host_override.val, provider |-> provider.val])

\* Mutant: a static backend loses its name.
BackendTryFrom_Unnamed(s) ==
  LET target == TargetTryFrom(s.host, AsU16(s.port))
      ai == AIBackendTryFrom(s.ai)
      targets == Collect([i \in 1..Len(s.targets) |-> McpTargetTryFrom(s.targets[i])])
  IN CASE s.kind = "Static" ->
            IF ~IsOk(target) THEN Err("Generic", DisplayErr(target.err))
            ELSE Ok([backend |-> "Opaque", name |-> <<>>, target |-> target.val])
       [] s.kind = "Ai" ->
            IF ~IsOk(ai) THEN ai
            ELSE Ok([backend |-> "AI", name |-> s.name, ai |-> ai.val])
       [] s.kind = "Mcp" ->
            IF ~IsOk(targets) THEN targets
            ELSE Ok([backend |-> "MCP", name |-> s.name, targets |-> targets.val])
       [] OTHER -> Err("Generic", <<"unknown backend">>)

BackendTryFrom(s) ==
  LET target == TargetTryFrom(s.host, AsU16(s.port))
      ai == AIBackendTryFrom(s.ai)
      targets == Collect([i \in 1..Len(s.targets) |-> McpTargetTryFrom(s.targets[i])])
  IN CASE s.kind = "Static" ->
            IF ~IsOk(target) THEN Err("Generic", DisplayErr(target.err))
            ELSE Ok([backend |-> "Opaque", name |-> s.name, target |-> target.val])
       [] s.kind = "Ai" ->
            IF ~IsOk(ai) THEN ai
            ELSE Ok([backend |-> "AI", name |-> s.name, ai |-> ai.val])
       [] s.kind = "Mcp" ->
            IF ~IsOk(targets) THEN targets
            ELSE Ok([backend |-> "MCP", name |-> s.name, targets |-> targets.val])
       [] OTHER -> Err("Generic", <<"unknown backend">>)

\* ---------------------------------------------------------------- Policy
\* proto::agent::policy_spec::local_rate_limit::Type::try_from(i32)
RateLimitTypeTryFrom(t) ==
  IF t = "Unrecognized" THEN Err("EnumDecode", <<"local_rate_limit.Type">>) ELSE Ok(t)

\* RateLimit from RateLimitSerde: a fill interval of zero is an invalid range.
RateLimitTryFrom(serde) ==
  IF serde.fill_interval = 0 THEN Err("Anyhow", <<"fill interval must be positive">>)
  ELSE Ok(serde)

\* Mutant: the sign of the wire duration is dropped.
FillIntervalTryFrom_Abs(fill_interval) ==
  IF ~IsSome(fill_interval) THEN Err("MissingRequiredField", <<>>)
  ELSE Ok(IF Unwrap(fill_interval) < 0 THEN 0 - Unwrap(fill_interval)
          ELSE Unwrap(fill_interval))

\* Mutant: a missing interval is replaced by the default duration.
FillIntervalTryFrom_Default(fill_interval) ==
  IF ~IsSome(fill_interval) THEN Ok(0)
  ELSE DurationTryFrom(Unwrap(fill_interval))

\* lrl.fill_interval.ok_or(MissingRequiredField)?.try_into()?
FillIntervalTryFrom(fill_interval) ==
  IF ~IsSome(fill_interval) THEN Err("MissingRequiredField", <<>>)
  ELSE DurationTryFrom(Unwrap(fill_interval))

\* Mutant: the capacity and the refill amount are taken from each other's field.
LocalRateLimitSerde_Swapped(lrl, fill_interval, t) ==
  [max_tokens |-> lrl.tokens_per_fill, tokens_per_fill |-> lrl.max_tokens,
   fill_interval |-> fill_interval,
   limit_type |-> IF t = "Request" THEN "Requests" ELSE "Tokens"]

LocalRateLimitSerde(lrl, fill_interval, t) ==
  [max_tokens |-> lrl.max_tokens, tokens_per_fill |-> lrl.tokens_per_fill,
   fill_interval |-> fill_interval,
   limit_type |-> IF t = "Request" THEN "Requests" ELSE "Tokens"]

LocalRateLimitTryFrom(lrl) ==
  LET t == RateLimitTypeTryFrom(lrl.type)
      fill == FillIntervalTryFrom(lrl.fill_interval)
      limit == RateLimitTryFrom(LocalRateLimitSerde(lrl, fill.val, t.val))
  IN IF ~IsOk(t) THEN t
     ELSE IF ~IsOk(fill) THEN fill
     ELSE IF ~IsOk(limit)
     THEN Err("Generic", <<"invalid rate limit:">> \o DisplayErr(limit.err))
     ELSE Ok([policy |-> "LocalRateLimit", limits |-> <<limit.val>>])

PolicyTargetKinds == {"Gateway", "Listener", "Route", "RouteRule", "Backend"}

TargetedPolicyTryFrom(s) ==
  IF ~IsSome(s.target) THEN Err("MissingRequiredField", <<>>)
  ELSE IF ~IsSome(s.spec) THEN Err("MissingRequiredField", <<>>)
  ELSE IF Unwrap(s.target).kind \notin PolicyTargetKinds
  THEN Err("EnumParse", <<"unknown target kind">>)
  ELSE IF Unwrap(s.spec).kind # "LocalRateLimit"
  THEN Err("EnumParse", <<"unknown spec kind">>)
  ELSE LET policy == LocalRateLimitTryFrom(Unwrap(s.spec))
       IN IF ~IsOk(policy) THEN policy
          ELSE Ok([name |-> s.name,
                   target |-> [kind |-> Unwrap(s.target).kind,
                               name |-> Unwrap(s.target).name],
                   policy |-> policy.val])

\* ------------------------------------------------------- runtime graph
\* The graph keeps the entities of a snapshot that converted; an entity that fails
\* its conversion is left out, and a conversion that panics ends the build.
Converts(rs) ==
  LET ok == SelectSeq(rs, LAMBDA r : IsOk(r)) IN [i \in 1..Len(ok) |-> ok[i].val]
BuildGraph(snapshot) ==
  LET binds == [i \in 1..Len(snapshot.binds) |-> BindTryFrom(snapshot.binds[i])]
      listeners ==
        [i \in 1..Len(snapshot.listeners) |-> ListenerTryFrom(snapshot.listeners[i])]
      routes == [i \in 1..Len(snapshot.routes) |-> RouteTryFrom(snapshot.routes[i])]
      backends ==
        [i \in 1..Len(snapshot.backends) |-> BackendTryFrom(snapshot.backends[i])]
      panics(rs) == \E i \in 1..Len(rs) : rs[i].tag = "Panic"
  IN IF panics(binds) \/ panics(listeners) \/ panics(routes) \/ panics(backends)
     THEN Panic
     ELSE Ok([binds |-> Converts(binds), listeners |-> Converts(listeners),
              routes |-> Converts(routes), backends |-> Converts(backends)])

\* --------------------------------------------------- request resolution
\* A compiled pattern of literals and groups matches a path when the whole path is
\* the pattern's literal text.
Literal(p) == SelectSeq(p, LAMBDA c : c \notin {"(", ")"})
RegexFullMatch(regex, path) == Literal(regex.compiled) = path

PathSatisfied(pm, path) ==
  CASE pm.kind = "PathPrefix" ->
         Len(pm.value) <= Len(path) /\ SubSeq(path, 1, Len(pm.value)) = pm.value
    [] pm.kind = "Exact" -> path = pm.value
    [] pm.kind = "Regex" -> RegexFullMatch(pm.regex, path)

\* Every axis a match specifies has to hold. Requests here carry neither headers
\* nor query parameters, so a match that names one is not satisfied.
MatchSatisfied(m, req) ==
  /\ PathSatisfied(m.path, req.path)
  /\ IsSome(m.method) => Unwrap(m.method).method = req.method
  /\ m.headers = <<>>
  /\ m.query = <<>>

\* Mutant: a route without matches is given no implicit match.
EffectiveMatches_NoImplicit(route) == route.matches

\* A route with zero matches implicitly matches path-prefix "/".
EffectiveMatches(route) ==
  IF route.matches = <<>>
  THEN <<[headers |-> <<>>, path |-> [kind |-> "PathPrefix", value |-> <<"/">>],
          method |-> None, query |-> <<>>]>>
  ELSE route.matches

\* Exact > Regex (longer pattern_len first) > PathPrefix (longer prefix first), then
\* the presence of a method and the number of header and query conditions.
Specificity(m) ==
  <<CASE m.path.kind = "Exact" -> 3 [] m.path.kind = "Regex" -> 2
      [] m.path.kind = "PathPrefix" -> 1,
    IF m.path.kind = "Regex" THEN m.path.pattern_len ELSE Len(m.path.value),
    IF IsSome(m.method) THEN 1 ELSE 0, Len(m.headers), Len(m.query)>>
MoreSpecific(a, b) ==
  \E i \in 1..Len(a) : a[i] > b[i] /\ \A j \in 1..(i - 1) : a[j] = b[j]

Satisfied(route, req) ==
  {m \in Elems(EffectiveMatches(route)) : MatchSatisfied(m, req)}
BestSpecificity(route, req) ==
  LET ss == {Specificity(m) : m \in Satisfied(route, req)}
  IN CHOOSE x \in ss : \A y \in ss : ~MoreSpecific(y, x)

\* The listener of the bind the connection arrived on; a TLS listener with a
\* hostname also needs the connection's server name to be that hostname.
SelectListener(g, req) ==
  LET binds == {b.key : b \in {b \in Elems(g.binds) : b.address.port = req.port}}
      hit(l) == /\ l[2] \in binds
                /\ \/ l[1].protocol.kind \notin {"HTTPS", "TLS"}
                   \/ l[1].hostname = ""
                   \/ l[1].hostname = req.host
      found == SelectSeq(g.listeners, hit)
  IN IF found = <<>> THEN None ELSE Some(found[1][1])

SelectRoute(g, listener, req) ==
  LET cands == {i \in 1..Len(g.routes) :
                  /\ g.routes[i][2] = listener.key
                  /\ \/ g.routes[i][1].hostnames = <<>>
                     \/ req.host \in Elems(g.routes[i][1].hostnames)
                  /\ Satisfied(g.routes[i][1], req) # {}}
      best(i) == BestSpecificity(g.routes[i][1], req)
      first == CHOOSE i \in cands :
                 \A j \in cands : /\ ~MoreSpecific(best(j), best(i))
                                  /\ best(j) = best(i) => i <= j
  IN IF cands = {} THEN None ELSE Some(g.routes[first][1])

\* A reference is looked up by name in the graph when the request is resolved.
ResolveReference(g, reference) ==
  LET named == SelectSeq(g.backends, LAMBDA b : b.name = reference.backend.name)
  IN CASE reference.backend.ref = "Invalid" -> [resolved |-> "Invalid"]
       [] reference.backend.ref = "Service" ->
            [resolved |-> "Service", service |-> reference.backend]
       [] reference.backend.ref = "Backend" ->
            IF named = <<>> THEN [resolved |-> "Unresolved"]
            ELSE [resolved |-> "Backend", backend |-> named[1]]

SelectBackends(g, route) ==
  [i \in 1..Len(route.backends) |-> ResolveReference(g, route.backends[i])]

Outcome(listener, route, backends) ==
  IF ~IsSome(listener) THEN [tag |-> "NoListenerMatched"]
  ELSE IF ~IsSome(route) THEN [tag |-> "NoRouteMatched"]
  ELSE IF \E b \in Elems(backends) : b.resolved = "Unresolved"
  THEN [tag |-> "BackendUnresolved"]
  ELSE [tag |-> "Resolved", listener |-> Unwrap(listener), route |-> Unwrap(route),
        backends |-> backends, filters |-> Unwrap(route).filters]

ResolveRequest(g, req) ==
  LET listener == SelectListener(g, req)
      route == IF IsSome(listener) THEN SelectRoute(g, Unwrap(listener), req) ELSE None
      backends == IF IsSome(route) THEN SelectBackends(g, Unwrap(route)) ELSE <<>>
  IN Outcome(listener, route, backends)

\* ------------------------------------------------------------ wire inputs
\* Wire ports and status codes are 32-bit; some exceed 16 bits.
WirePorts == {0, 80, 65535, 65536, 65616}
WireStatuses == {0, 99, 302, 65838}
WireProtocols == {"Unrecognized", "Unknown", "Http", "Https", "Tls", "Tcp", "Hbone"}
WireTls == {None} \cup {Some([cert |-> c, private_key |-> k]) : c, k \in {"pem", "garbage"}}

ServiceKeys == SeqsUpTo({"n", "/"}, MaxKeyLen)
Patterns == SeqsUpTo({"a", "(", ")"}, MaxPatLen)

WireBinds == {[type |-> "Bind", key |-> "bind", port |-> p] : p \in WirePorts}

WireListeners ==
  {[type |-> "Listener", key |-> "l", name |-> "listener", hostname |-> h,
    protocol |-> p, tls |-> t, gateway_name |-> "gw", bind_key |-> "bind"] :
     h \in {"", "example.com"}, p \in WireProtocols, t \in WireTls}

\* Backend references: unset, a backend name, or a service key.
WireRefs ==
  {[ref |-> "Unset", key |-> <<>>], [ref |-> "Backend", key |-> <<"s", "v", "c">>]}
    \cup {[ref |-> "Service", key |-> k] : k \in ServiceKeys}

WireHeaderModifiers ==
  {[type |-> "RouteFilter", kind |-> k, add |-> a, set |-> <<>>, remove |-> <<"x-old">>] :
     k \in {"RequestHeaderModifier", "ResponseHeaderModifier"},
     a \in {<<>>, <<[name |-> "x-new", value |-> "1"]>>}}
WireRedirects ==
  {[type |-> "RouteFilter", kind |-> "RequestRedirect", scheme |-> sc, host |-> h,
    port |-> p, path |-> pa, status |-> st] :
     sc \in {"", "https", "ht tp"}, h \in {"", "example.com"}, p \in WirePorts,
     pa \in {None, Some([kind |-> "Full", path |-> "/new"])}, st \in WireStatuses}
WireRewrites ==
  {[type |-> "RouteFilter", kind |-> "UrlRewrite", host |-> h, path |-> pa] :
     h \in {"", "example.com"},
     pa \in {None, Some([kind |-> "Full", path |-> "/new"]),
             Some([kind |-> "Prefix", path |-> "/p"])}}
WireMirrors ==
  {[type |-> "RouteFilter", kind |-> "RequestMirror", ref |-> r.ref, key |-> r.key,
    port |-> p, percentage |-> 50] :
     r \in {w \in WireRefs : w.ref # "Backend"}, p \in WirePorts}
WireDirectResponses ==
  {[type |-> "RouteFilter", kind |-> "DirectResponse", body |-> "gone", status |-> st] :
     st \in WireStatuses}
WireCors ==
  {[type |-> "RouteFilter", kind |-> "Cors", allow_credentials |-> FALSE,
    allow_origins |-> o, max_age |-> m] :
     o \in {<<"*">>, <<"line\nbreak">>}, m \in {None, Some(3600)}}
WireFilterUnset == [type |-> "RouteFilter", kind |-> "Unset"]
WireFilters ==
  {WireFilterUnset} \cup WireHeaderModifiers \cup WireRedirects \cup WireRewrites
    \cup WireMirrors \cup WireDirectResponses \cup WireCors

\* Lists inside a larger message are drawn from a few elements of each outcome.
ListsOf(good, others) ==
  {<<>>} \cup {<<x>> : x \in {good} \cup others} \cup {<<good, x>> : x \in {good} \cup others}

GoodFilter ==
  [type |-> "RouteFilter", kind |-> "RequestHeaderModifier", add |-> <<>>,
   set |-> <<>>, remove |-> <<"x-old">>]
FilterLists ==
  ListsOf(GoodFilter,
          {WireFilterUnset,
           [type |-> "RouteFilter", kind |-> "RequestMirror", ref |-> "Unset",
            key |-> <<>>, port |-> 0, percentage |-> 50],
           [type |-> "RouteFilter", kind |-> "RequestMirror", ref |-> "Service",
            key |-> <<"n">>, port |-> 80, percentage |-> 50],
           [type |-> "RouteFilter", kind |-> "DirectResponse", body |-> "gone",
            status |-> 99],
           [type |-> "RouteFilter", kind |-> "RequestRedirect", scheme |-> "",
            host |-> "", port |-> 65536, path |-> None, status |-> 0]})

WireRouteBackends ==
  {[type |-> "RouteBackend", ref |-> r.ref, key |-> r.key, port |-> p, weight |-> w,
    filters |-> f] :
     r \in WireRefs, p \in WirePorts, w \in {0, 3}, f \in FilterLists}

WireMcpTargets ==
  {[type |-> "McpTarget", name |-> "tool", protocol |-> pr, ref |-> r.ref,
    key |-> r.key, port |-> p] :
     pr \in {"Unrecognized", "Undefined", "Sse", "StreamableHttp"},
     r \in WireRefs, p \in WirePorts}

WirePaths ==
  {None, Some([kind |-> "Unset", value |-> <<>>])}
    \cup {Some([kind |-> k, value |-> v]) :
            k \in {"PathPrefix", "Exact"}, v \in {<<"/">>, <<"/", "a">>}}
    \cup {Some([kind |-> "Regex", value |-> p]) : p \in Patterns}
SamplePatterns == {<<"a">>, <<"(">>}
WireHeaderMatches ==
  {[name |-> n, value |-> v] :
     n \in {"x-env", "bad name"},
     v \in {None} \cup {Some([kind |-> "Exact", exact |-> e]) : e \in {"prod", "line\nbreak"}}
             \cup {Some([kind |-> "Regex", regex |-> p]) : p \in SamplePatterns}}
WireQueryMatches ==
  {[name |-> "q", value |-> v] :
     v \in {None, Some([kind |-> "Exact", exact |-> "1"])}
             \cup {Some([kind |-> "Regex", regex |-> p]) : p \in SamplePatterns}}
GoodHeaderMatch == [name |-> "x-env", value |-> Some([kind |-> "Exact", exact |-> "prod"])]
GoodQueryMatch == [name |-> "q", value |-> Some([kind |-> "Exact", exact |-> "1"])]
WireRouteMatches ==
  {[type |-> "RouteMatch", path |-> pa, method |-> m, headers |-> h, query_params |-> q] :
     pa \in WirePaths, m \in {None, Some([exact |-> "GET"])},
     h \in ListsOf(GoodHeaderMatch, WireHeaderMatches),
     q \in ListsOf(GoodQueryMatch, WireQueryMatches)}

WireTimeouts == {None, Some(30), Some(-1)}
WireTrafficPolicies ==
  {None} \cup {Some([request_timeout |-> r, backend_request_timeout |-> b]) :
                 r, b \in WireTimeouts}

GoodMatch ==
  [type |-> "RouteMatch", path |-> Some([kind |-> "Regex", value |-> <<"a">>]),
   method |-> None, headers |-> <<>>, query_params |-> <<>>]
MatchLists ==
  ListsOf(GoodMatch,
          {[GoodMatch EXCEPT !.path = Some([kind |-> "Regex", value |-> <<"(">>])],
           [GoodMatch EXCEPT !.headers =
              <<[name |-> "x-env", value |-> Some([kind |-> "Regex", regex |-> <<"(">>])]>>],
           [GoodMatch EXCEPT !.query_params =
              <<[name |-> "q", value |-> Some([kind |-> "Regex", regex |-> <<"(">>])]>>]})
GoodRouteBackend ==
  [type |-> "RouteBackend", ref |-> "Backend", key |-> <<"s", "v", "c">>, port |-> 0,
   weight |-> 3, filters |-> <<>>]
RouteBackendLists ==
  ListsOf(GoodRouteBackend,
          {[GoodRouteBackend EXCEPT !.ref = "Unset", !.key = <<>>],
           [GoodRouteBackend EXCEPT !.ref = "Service", !.key = <<"n", "/", "n">>,
                                    !.port = 65616],
           [GoodRouteBackend EXCEPT !.ref = "Service", !.key = <<"n">>],
           [GoodRouteBackend EXCEPT !.filters = <<WireFilterUnset>>]})
WireRoutes ==
  {[type |-> "Route", key |-> "r", route_name |-> "route", rule_name |-> rn,
    hostnames |-> <<"example.com">>, listener_key |-> "l", matches |-> m,
    filters |-> f, backends |-> b, traffic_policy |-> tp] :
     rn \in {"", "rule"}, m \in MatchLists, f \in FilterLists, b \in RouteBackendLists,
     tp \in {None, Some([request_timeout |-> Some(30), backend_request_timeout |-> None]),
             Some([request_timeout |-> None, backend_request_timeout |-> Some(-1)])}}

WireModels == {None, Some("m")}
WireRegions == {"", "us-east-1"}
WireProviders ==
  {None}
    \cup {Some([provider |-> pv, model |-> m, region |-> "", project_id |-> ""]) :
            pv \in {"Openai", "Gemini", "Anthropic"}, m \in WireModels}
    \cup {Some([provider |-> "Vertex", model |-> m, region |-> r, project_id |-> "proj"]) :
            m \in WireModels, r \in WireRegions}
    \cup {Some([provider |-> "Bedrock", model |-> m, region |-> r, project_id |-> ""]) :
            m \in WireModels, r \in WireRegions}
WireHosts == {"10.0.0.1", "example.com"}
WireOverrides ==
  {None} \cup {Some([host |-> h, port |-> p]) : h \in WireHosts, p \in {443, 65616}}
GoodMcpTarget ==
  [type |-> "McpTarget", name |-> "tool", protocol |-> "Sse", ref |-> "Backend",
   key |-> <<"s", "v", "c">>, port |-> 0]
McpTargetLists ==
  ListsOf(GoodMcpTarget,
          {[GoodMcpTarget EXCEPT !.ref = "Unset", !.key = <<>>, !.protocol = "Undefined"],
           [GoodMcpTarget EXCEPT !.ref = "Service", !.key = <<"n">>],
           [GoodMcpTarget EXCEPT !.protocol = "Unrecognized"]})
NoAi == [override |-> None, provider |-> None]
WireBackends ==
  {[type |-> "Backend", name |-> "svcA", kind |-> "Unset", host |-> "", port |-> 0,
    ai |-> NoAi, targets |-> <<>>]}
    \cup {[type |-> "Backend", name |-> "svcA", kind |-> "Static", host |-> h,
           port |-> p, ai |-> NoAi, targets |-> <<>>] : h \in WireHosts, p \in WirePorts}
    \cup {[type |-> "Backend", name |-> "svcA", kind |-> "Ai", host |-> "", port |-> 0,
           ai |-> [override |-> o, provider |-> pv], targets |-> <<>>] :
            o \in WireOverrides, pv \in WireProviders}
    \cup {[type |-> "Backend", name |-> "svcA", kind |-> "Mcp", host |-> "", port |-> 0,
           ai |-> NoAi, targets |-> t] : t \in McpTargetLists}

WirePolicyTargets ==
  {None, Some([kind |-> "Unset", name |-> ""])}
    \cup {Some([kind |-> k, name |-> "gw"]) : k \in PolicyTargetKinds}
WireFillIntervals == {None, Some(-1), Some(0), Some(1), Some(2)}
WireRateLimits ==
  {[kind |-> "LocalRateLimit", max_tokens |-> m, tokens_per_fill |-> f,
    fill_interval |-> i, type |-> t] :
     m \in {2, 5}, f \in {1, 2}, i \in WireFillIntervals,
     t \in {"Request", "Token", "Unrecognized"}}
WirePolicySpecs ==
  {None, Some([kind |-> "Unset", max_tokens |-> 0, tokens_per_fill |-> 0,
               fill_interval |-> None, type |-> "Request"])}
    \cup {Some(l) : l \in WireRateLimits}
WirePolicies ==
  {[type |-> "Policy", name |-> "limit", target |-> t, spec |-> sp] :
     t \in WirePolicyTargets, sp \in WirePolicySpecs}

\* Snapshots: one bind, the listeners, routes and backends of the control plane.
Api == <<"/", "a", "p", "i">>
SvcA == <<"s", "v", "c", "A">>
SnapshotListener(protocol, tls, hostname) ==
  [type |-> "Listener", key |-> "l", name |-> "listener", hostname |-> hostname,
   protocol |-> protocol, tls |-> tls, gateway_name |-> "gw", bind_key |-> "bind"]
SnapshotListeners ==
  {<<>>, <<SnapshotListener("Http", None, "")>>,
   <<SnapshotListener("Https", Some([cert |-> "pem", private_key |-> "pem"]),
                      "example.com")>>}
SnapshotRoute(key, path, backend) ==
  [type |-> "Route", key |-> key, route_name |-> "route", rule_name |-> "",
   hostnames |-> <<>>, listener_key |-> "l",
   matches |-> IF path = None THEN <<>>
               ELSE <<[type |-> "RouteMatch", path |-> path, method |-> None,
                       headers |-> <<>>, query_params |-> <<>>]>>,
   filters |-> <<>>,
   backends |-> <<[type |-> "RouteBackend", ref |-> "Backend", key |-> backend,
                   port |-> 0, weight |-> 1, filters |-> <<>>]>>,
   traffic_policy |-> None]
SnapshotRoutePool ==
  {SnapshotRoute("none", None, SvcA),
   SnapshotRoute("prefix", Some([kind |-> "PathPrefix", value |-> Api]), SvcA),
   SnapshotRoute("exact", Some([kind |-> "Exact", value |-> Api]), SvcA),
   SnapshotRoute("regex", Some([kind |-> "Regex", value |-> Api]), SvcA),
   SnapshotRoute("group", Some([kind |-> "Regex", value |-> <<"(">> \o Api \o <<")">>]),
                 SvcA),
   SnapshotRoute("open", Some([kind |-> "Regex", value |-> <<"(">> \o Api]), SvcA),
   SnapshotRoute("lost", Some([kind |-> "PathPrefix", value |-> Api]),
                 <<"g", "o", "n", "e">>)}
SnapshotRoutes ==
  {<<>>} \cup {<<r>> : r \in SnapshotRoutePool}
    \cup {<<r, q>> : r, q \in SnapshotRoutePool}
SnapshotBackend(name, host) ==
  [type |-> "Backend", name |-> name, kind |-> "Static", host |-> host, port |-> 8080,
   ai |-> NoAi, targets |-> <<>>]
SnapshotBackends ==
  {<<>>, <<SnapshotBackend(SvcA, "10.0.0.1")>>,
   <<SnapshotBackend(<<"s", "v", "c", "B">>, "example.com"),
     SnapshotBackend(SvcA, "10.0.0.1")>>}
WireSnapshots ==
  {[type |-> "Snapshot", binds |-> <<[type |-> "Bind", key |-> "bind", port |-> 80]>>,
    listeners |-> l, routes |-> r, backends |-> b] :
     l \in SnapshotListeners, r \in SnapshotRoutes, b \in SnapshotBackends}

\* Requests: the port the connection arrived on, the host, the method and the path.
Requests ==
  {[port |-> po, host |-> h, method |-> m, path |-> pa] :
     po \in {80, 8080}, h \in {"example.com", "other.org"}, m \in {"GET", "POST"},
     pa \in {<<"/">>, Api, Api \o <<"/", "w">>, Api \o <<"x">>,
             <<"/", "o", "t", "h", "e", "r">>}}

WireMessages ==
  WireBinds \cup WireListeners \cup WireFilters \cup WireRouteBackends
    \cup WireMcpTargets \cup WireRouteMatches \cup WireRoutes \cup WireBackends
    \cup WirePolicies

\* ------------------------------------------------------------- behaviour
\* A wire message has been received and is waiting to be converted.
Init ==
  /\ wire \in WireMessages
  /\ result = Pending
  /\ graph = None
  /\ request = None
  /\ bucket = None
  /\ callers = <<>>
  /\ readers = <<>>
  /\ now = 0
  /\ client = None
  /\ http = None

ConvertBind ==
  /\ result.tag = "Pending"
  /\ wire.type = "Bind"
  /\ result' = BindTryFrom(wire)
  /\ UNCHANGED <<wire, graph, request, bucket, callers, readers, now, client, http>>

ConvertListener ==
  /\ result.tag = "Pending"
  /\ wire.type = "Listener"
  /\ result' = ListenerTryFrom(wire)
  /\ UNCHANGED <<wire, graph, request, bucket, callers, readers, now, client, http>>

ConvertRouteFilter ==
  /\ result.tag = "Pending"
  /\ wire.type = "RouteFilter"
  /\ result' = RouteFilterTryFrom(wire)
  /\ UNCHANGED <<wire, graph, request, bucket, callers, readers, now, client, http>>

ConvertRouteBackend ==
  /\ result.tag = "Pending"
  /\ wire.type = "RouteBackend"
  /\ result' = RouteBackendTryFrom(wire)
  /\ UNCHANGED <<wire, graph, request, bucket, callers, readers, now, client, http>>

ConvertMcpTarget ==
  /\ result.tag = "Pending"
  /\ wire.type = "McpTarget"
  /\ result' = McpTargetTryFrom(wire)
  /\ UNCHANGED <<wire, graph, request, bucket, callers, readers, now, client, http>>

ConvertRouteMatch ==
  /\ result.tag = "Pending"
  /\ wire.type = "RouteMatch"
  /\ result' = RouteMatchTryFrom(wire)
  /\ UNCHANGED <<wire, graph, request, bucket, callers, readers, now, client, http>>

ConvertRoute ==
  /\ result.tag = "Pending"
  /\ wire.type = "Route"
  /\ result' = RouteTryFrom(wire)
  /\ UNCHANGED <<wire, graph, request, bucket, callers, readers, now, client, http>>

ConvertBackend ==
  /\ result.tag = "Pending"
  /\ wire.type = "Backend"
  /\ result' = BackendTryFrom(wire)
  /\ UNCHANGED <<wire, graph, request, bucket, callers, readers, now, client, http>>

ConvertPolicy ==
  /\ result.tag = "Pending"
  /\ wire.type = "Policy"
  /\ result' = TargetedPolicyTryFrom(wire)
  /\ UNCHANGED <<wire, graph, request, bucket, callers, readers, now, client, http>>

Next ==
  \/ ConvertBind
  \/ ConvertListener
  \/ ConvertRouteFilter
  \/ ConvertRouteBackend
  \/ ConvertMcpTarget
  \/ ConvertRouteMatch
  \/ ConvertRoute
  \/ ConvertBackend
  \/ ConvertPolicy

Spec == Init /\ [][Next]_vars

\* ---------------------------------------------------- rate limit behaviour
\* The bucket of a converted Requests-mode limit starts full. elapsed is the time
\* since the last refill; now, fills, before, avail, admitted and served record the
\* history: the time since the start, the refills so far, the tokens just before and
\* just after the last refill, the requests admitted since it, and the requests
\* answered since the start.
Callers == {"c1", "c2"}
Min(a, b) == IF a <= b THEN a ELSE b

NewBucket ==
  /\ wire.type = "Policy"
  /\ IsOk(result)
  /\ bucket = None
  /\ LET limit == result.val.policy.limits[1]
     IN /\ limit.limit_type = "Requests"
        /\ bucket' = Some([max_tokens |-> limit.max_tokens,
                           tokens_per_fill |-> limit.tokens_per_fill,
                           fill_interval |-> limit.fill_interval,
                           tokens |-> limit.max_tokens, elapsed |-> 0, now |-> 0,
                           fills |-> 0, before |-> limit.max_tokens,
                           avail |-> limit.max_tokens, admitted |-> 0, served |-> 0])
  /\ callers' = [c \in Callers |-> [pc |-> "idle", seen |-> 0, last |-> "none"]]
  /\ UNCHANGED <<wire, result, graph, request, readers, now, client, http>>

\* A request reads the token count.
Load(c) ==
  /\ IsSome(bucket)
  /\ callers[c].pc = "idle"
  /\ Unwrap(bucket).served + Cardinality({d \in Callers : callers[d].pc = "cas"})
       < MaxRequests
  /\ callers' = [callers EXCEPT ![c] = [@ EXCEPT !.pc = "cas",
                                                 !.seen = Unwrap(bucket).tokens]]
  /\ UNCHANGED <<wire, result, graph, request, bucket, readers, now, client, http>>

\* Mutant: the new count is stored without comparing the current one.
CompareExchange_Store(current, seen) == [ok |-> TRUE, tokens |-> seen - 1]

\* The count becomes seen - 1 only if it still is what the request read.
CompareExchange(current, seen) ==
  IF current = seen THEN [ok |-> TRUE, tokens |-> seen - 1]
  ELSE [ok |-> FALSE, tokens |-> current]

\* A request that read no token is RateLimited; otherwise it takes one token with a
\* compare-and-exchange and reads the count again when that fails.
CheckAndDecrement(c) ==
  /\ IsSome(bucket)
  /\ callers[c].pc = "cas"
  /\ LET b == Unwrap(bucket)
         cas == CompareExchange(b.tokens, callers[c].seen)
     IN IF callers[c].seen < 1
        THEN /\ callers' = [callers EXCEPT ![c] = [@ EXCEPT !.pc = "idle",
                                                            !.last = "RateLimited"]]
             /\ bucket' = Some([b EXCEPT !.served = @ + 1])
        ELSE IF cas.ok
        THEN /\ callers' = [callers EXCEPT ![c] = [@ EXCEPT !.pc = "idle",
                                                            !.last = "Admitted"]]
             /\ bucket' = Some([b EXCEPT !.tokens = cas.tokens, !.admitted = @ + 1,
                                         !.served = @ + 1])
        ELSE /\ callers' = [callers EXCEPT ![c] = [@ EXCEPT !.seen = b.tokens]]
             /\ UNCHANGED bucket
  /\ UNCHANGED <<wire, result, graph, request, readers, now, client, http>>

\* One second passes; when a fill interval is complete the bucket gains
\* tokens_per_fill tokens, up to its capacity.
Elapse ==
  /\ IsSome(bucket)
  /\ Unwrap(bucket).fills < MaxFills
  /\ LET b == Unwrap(bucket)
         filled == Min(b.max_tokens, b.tokens + b.tokens_per_fill)
     IN bucket' =
          IF b.elapsed + 1 < b.fill_interval
          THEN Some([b EXCEPT !.elapsed = @ + 1, !.now = @ + 1])
          ELSE Some([b EXCEPT !.elapsed = 0, !.now = @ + 1, !.fills = @ + 1,
                              !.before = b.tokens, !.tokens = filled,
                              !.avail = filled, !.admitted = 0])
  /\ UNCHANGED <<wire, result, graph, request, callers, readers, now, client, http>>

InitRateLimit ==
  /\ wire \in {w \in WirePolicies : IsSome(w.target) /\ Unwrap(w.target).kind = "Route"}
  /\ result = Pending
  /\ graph = None
  /\ request = None
  /\ bucket = None
  /\ callers = <<>>
  /\ readers = <<>>
  /\ now = 0
  /\ client = None
  /\ http = None

NextRateLimit ==
  \/ ConvertPolicy
  \/ NewBucket
  \/ \E c \in Callers : Load(c)
  \/ \E c \in Callers : CheckAndDecrement(c)
  \/ Elapse

SpecRateLimit == InitRateLimit /\ [][NextRateLimit]_vars

\* ------------------------------------------------- resolution behaviour
\* The writer builds the graph of the pending snapshot and publishes it.
ApplySnapshot ==
  /\ wire.type = "Snapshot"
  /\ IsOk(BuildGraph(wire))
  /\ graph # Some(BuildGraph(wire).val)
  /\ graph' = Some(BuildGraph(wire).val)
  /\ UNCHANGED <<wire, result, request, bucket, callers, readers, now, client, http>>

\* A request is resolved against the published graph in one synchronous call.
Resolve ==
  /\ IsSome(graph)
  /\ result.tag = "Pending"
  /\ \E req \in Requests :
       /\ request' = Some(req)
       /\ result' = ResolveRequest(Unwrap(graph), req)
  /\ UNCHANGED <<wire, graph, bucket, callers, readers, now, client, http>>

InitResolve ==
  /\ wire \in WireSnapshots
  /\ result = Pending
  /\ graph = None
  /\ request = None
  /\ bucket = None
  /\ callers = <<>>
  /\ readers = <<>>
  /\ now = 0
  /\ client = None
  /\ http = None

NextResolve == ApplySnapshot \/ Resolve

SpecResolve == InitResolve /\ [][NextResolve]_vars

\* ---------------------------------------------------- snapshot behaviour
\* One writer publishes the graph of a new snapshot with a single swap of the
\* reference (ApplySnapshot) while requests are in flight. A request acquires the
\* published graph once and then selects listener, route and backends step by step.
\* epoch records which graph was published when the request acquired its reference.
Readers == {"r1", "r2"}
OldSnapshot ==
  [type |-> "Snapshot", binds |-> <<[type |-> "Bind", key |-> "bind", port |-> 80]>>,
   listeners |-> <<SnapshotListener("Http", None, "")>>,
   routes |-> <<SnapshotRoute("prefix", Some([kind |-> "PathPrefix", value |-> Api]),
                              SvcA)>>,
   backends |-> <<SnapshotBackend(SvcA, "10.0.0.1")>>]
NewSnapshots ==
  {w \in WireSnapshots : Len(w.listeners) = 1 /\ Len(w.routes) <= 1}
InFlight ==
  {r \in Requests : r.host = "example.com" /\ r.method = "GET"
                    /\ r.path \in {Api, <<"/", "o", "t", "h", "e", "r">>}}
Idle ==
  [pc |-> "idle", req |-> None, held |-> None, epoch |-> "none", listener |-> None,
   route |-> None, outcome |-> Pending]

\* Mutant: every step reads the graph published at that moment.
SnapshotOf_Current(reader) == Unwrap(graph)

\* The graph a request works on is the one it acquired.
SnapshotOf(reader) == Unwrap(reader.held)

Acquire(r) ==
  /\ IsSome(graph)
  /\ readers[r].pc = "idle"
  /\ \E req \in InFlight :
       readers' = [readers EXCEPT ![r] =
                     [Idle EXCEPT !.pc = "listener", !.req = Some(req), !.held = graph,
                                  !.epoch = IF graph = Some(BuildGraph(OldSnapshot).val)
                                            THEN "old" ELSE "new"]]
  /\ UNCHANGED <<wire, result, graph, request, bucket, callers, now, client, http>>

StepListener(r) ==
  /\ readers[r].pc = "listener"
  /\ LET listener == SelectListener(SnapshotOf(readers[r]), Unwrap(readers[r].req))
     IN readers' = [readers EXCEPT ![r] =
                      IF IsSome(listener)
                      THEN [@ EXCEPT !.pc = "route", !.listener = listener]
                      ELSE [@ EXCEPT !.pc = "done",
                                     !.outcome = Outcome(listener, None, <<>>)]]
  /\ UNCHANGED <<wire, result, graph, request, bucket, callers, now, client, http>>

StepRoute(r) ==
  /\ readers[r].pc = "route"
  /\ LET route == SelectRoute(SnapshotOf(readers[r]), Unwrap(readers[r].listener),
                              Unwrap(readers[r].req))
     IN readers' = [readers EXCEPT ![r] =
                      IF IsSome(route)
                      THEN [@ EXCEPT !.pc = "backends", !.route = route]
                      ELSE [@ EXCEPT !.pc = "done",
                                     !.outcome = Outcome(readers[r].listener, route, <<>>)]]
  /\ UNCHANGED <<wire, result, graph, request, bucket, callers, now, client, http>>

StepBackends(r) ==
  /\ readers[r].pc = "backends"
  /\ LET backends == SelectBackends(SnapshotOf(readers[r]), Unwrap(readers[r].route))
     IN readers' = [readers EXCEPT ![r] =
                      [@ EXCEPT !.pc = "done",
                                !.outcome =
                                  Outcome(readers[r].listener, readers[r].route, backends)]]
  /\ UNCHANGED <<wire, result, graph, request, bucket, callers, now, client, http>>

InitSwap ==
  /\ wire \in NewSnapshots
  /\ result = Pending
  /\ graph = Some(BuildGraph(OldSnapshot).val)
  /\ request = None
  /\ bucket = None
  /\ callers = <<>>
  /\ readers = [r \in Readers |-> Idle]
  /\ now = 0
  /\ client = None
  /\ http = None

NextSwap ==
  \/ ApplySnapshot
  \/ \E r \in Readers : Acquire(r)
  \/ \E r \in Readers : StepListener(r)
  \/ \E r \in Readers : StepRoute(r)
  \/ \E r \in Readers : StepBackends(r)

SpecSwap == InitSwap /\ [][NextSwap]_vars

\* ------------------------------------------------- sessions (auth/session.rs)
\* The web-login subsystem.  Time is the number of whole seconds since the UNIX
\* epoch.  A token text is the empty text <<>> or <<jwt>>, the text of one JWT; a JWT
\* is its claims and whether its signature was made with the manager's secret.
\* validation.leeway
Leeway == 60
\* SessionConfig::default().refresh_threshold, in seconds
RefreshThreshold == 1800
\* SessionConfig::default().max_age, in seconds
MaxAge == 28800

\* jsonwebtoken::decode under Validation { validate_exp: true, leeway }: a text that
\* is no JWT signed with the secret is rejected, and so is one whose exp lies more
\* than the leeway before the current time; every failure becomes AuthError::JwtError.
Decode(text, t) ==
  IF text = <<>> THEN Err("JwtError", <<"InvalidToken">>)
  ELSE IF ~text[1].signed THEN Err("JwtError", <<"InvalidSignature">>)
  ELSE IF text[1].claims.exp < t - Leeway THEN Err("JwtError", <<"ExpiredSignature">>)
  ELSE Ok(text[1].claims)

\* SessionManager::create_session at time t: iat is the time of the call, exp the
\* session's expires_at; a time before the epoch is an InternalError.
create_session(user_session, t) ==
  IF t < 0 \/ user_session.expires_at < 0 THEN Err("InternalError", <<"SystemTimeError">>)
  ELSE Ok(<<[signed |-> TRUE,
             claims |-> [sub |-> user_session.session_id, iat |-> t,
                         exp |-> user_session.expires_at,
                         user_id |-> user_session.user_id,
                         username |-> user_session.username,
                         email |-> user_session.email,
                         roles |-> user_session.roles,
                         auth_method |-> user_session.auth_method,
                         csrf_token |-> user_session.csrf_token,
                         metadata |-> user_session.metadata]]>>)

\* SessionManager::validate_session at time t.
validate_session(text, t) ==
  LET d == Decode(text, t) IN
  IF ~IsOk(d) THEN d
  ELSE IF t >= d.val.exp THEN Err("SessionExpired", <<>>)
  ELSE Ok([session_id |-> d.val.sub, user_id |-> d.val.user_id,
           username |-> d.val.username, email |-> d.val.email,
           roles |-> d.val.roles, auth_method |-> d.val.auth_method,
           created_at |-> d.val.iat, last_accessed |-> t,
           expires_at |-> d.val.exp, csrf_token |-> d.val.csrf_token,
           metadata |-> d.val.metadata])

refresh_session_AtThreshold(session, t, csrf) ==
  IF session.expires_at < t THEN Err("SessionExpired", <<>>)
  ELSE IF session.expires_at - t >= RefreshThreshold
    THEN Ok([session |-> session, token |-> <<>>])
  ELSE LET new_session == [session EXCEPT !.last_accessed = t,
                                          !.expires_at = t + MaxAge,
                                          !.csrf_token = csrf]
           token == create_session(new_session, t)
       IN IF IsOk(token) THEN Ok([session |-> new_session, token |-> token.val])
          ELSE token
\* SessionManager::refresh_session at time t; csrf is the value generate_csrf_token
\* returns.  duration_since fails only when expires_at lies before t.
refresh_session(session, t, csrf) ==
  IF session.expires_at < t THEN Err("SessionExpired", <<>>)
  ELSE IF session.expires_at - t > RefreshThreshold
    THEN Ok([session |-> session, token |-> <<>>])
  ELSE LET new_session == [session EXCEPT !.last_accessed = t,
                                          !.expires_at = t + MaxAge,
                                          !.csrf_token = csrf]
           token == create_session(new_session, t)
       IN IF IsOk(token) THEN Ok([session |-> new_session, token |-> token.val])
          ELSE token

\* SessionManager::create_session_cookie / create_logout_cookie.
create_session_cookie(token) ==
  [name |-> "agentgateway_session", value |-> token, max_age |-> MaxAge]
create_logout_cookie ==
  [name |-> "agentgateway_session", value |-> <<>>, max_age |-> 0]

\* SessionManager::validate_csrf_token
validate_csrf_token(session, provided_token) == session.csrf_token = provided_token

\* UserSession::new at time t; id and csrf are the values generate_session_id and
\* generate_csrf_token return.
UserSessionNew(user, auth_method, session_duration, t, id, csrf) ==
  [session_id |-> id, user_id |-> user.id, username |-> user.username,
   email |-> user.email, roles |-> user.roles, auth_method |-> auth_method,
   created_at |-> t, last_accessed |-> t, expires_at |-> t + session_duration,
   csrf_token |-> csrf, metadata |-> <<>>]

\* -------------------------------------------- middleware (auth/middleware.rs)
excluded_paths ==
  {<<"/", "a", "u", "t", "h", "/", "l", "o", "g", "i", "n">>,
   <<"/", "a", "u", "t", "h", "/", "l", "o", "g", "o", "u", "t">>,
   <<"/", "a", "u", "t", "h", "/", "o", "a", "u", "t", "h", "2">>,
   <<"/", "a", "u", "t", "h", "/", "h", "e", "a", "l", "t", "h">>,
   <<"/", "h", "e", "a", "l", "t", "h">>,
   <<"/", "m", "e", "t", "r", "i", "c", "s">>,
   <<"/", "d", "e", "b", "u", "g">>,
   <<"/", "q", "u", "i", "t", "q", "u", "i", "t", "q", "u", "i", "t">>,
   <<"/", "c", "o", "n", "f", "i", "g", "_", "d", "u", "m", "p">>,
   <<"/", "l", "o", "g", "g", "i", "n", "g">>,
   <<"/", "a", "s", "s", "e", "t", "s">>,
   <<"/", "f", "a", "v", "i", "c", "o", "n", ".", "i", "c", "o">>,
   <<"/", "r", "o", "b", "o", "t", "s", ".", "t", "x", "t">>}
is_excluded_path(path) == \E excluded \in excluded_paths : StartsWith(path, excluded)

api_paths ==
  {<<"/", "a", "p", "i", "/">>,
   <<"/", "a", "u", "t", "h", "/">>,
   <<"/", "c", "o", "n", "f", "i", "g">>,
   <<"/", "m", "e", "t", "r", "i", "c", "s">>}
is_api_path(path) == \E api_path \in api_paths : StartsWith(path, api_path)

is_state_changing_request(req) == req.method \in {"POST", "PUT", "DELETE", "PATCH"}

\* urlencoding::encode: letters, digits, '-', '_', '.' and '~' stay; every other
\* byte becomes '%' and its two hexadecimal digits.
Unreserved ==
  {"a", "b", "c", "d", "e", "f", "g", "h", "i", "j", "k", "l", "m", "n", "o", "p", "q",
   "r", "s", "t", "u", "v", "w", "x", "y", "z", "0", "1", "2", "3", "4", "5", "6", "7",
   "8", "9", "-", "_", ".", "~"}
HexOf(c) ==
  CASE c = "/" -> <<"2", "F">>
    [] c = "+" -> <<"2", "B">>
    [] c = "%" -> <<"2", "5">>
    [] c = "?" -> <<"3", "F">>
RECURSIVE UrlEncode(_)
UrlEncode(text) ==
  IF text = <<>> THEN <<>>
  ELSE (IF Head(text) \in Unreserved THEN <<Head(text)>>
        ELSE <<"%">> \o HexOf(Head(text))) \o UrlEncode(Tail(text))
LoginRedirect == <<"/", "a", "u", "t", "h", "/", "l", "o", "g", "i", "n", "?", "r", "e", "d", "i", "r", "e", "c", "t", "=">>
RequestPaths ==
  {<<"/", "a", "p", "i", "/", "x">>,
   <<"/", "a", "u", "t", "h", "/", "m", "e">>,
   <<"/", "c", "o", "n", "f", "i", "g">>,
   <<"/", "a", "+", "b">>,
   <<"/", "h", "e", "a", "l", "t", "h", "z">>,
   <<"/", "m", "e", "t", "r", "i", "c", "s">>}

\* auth_middleware: t is the time of validate_session, t2 the time of the later
\* refresh_session, csrf the value generate_csrf_token returns.  The outcome names
\* whether next ran, the session put into the request's extensions, the cookies
\* added and the response of the middleware itself when next did not run.
Forward(extension, cookies) ==
  [next |-> TRUE, extension |-> extension, cookies |-> cookies, response |-> None]
Respond(response, cookies) ==
  [next |-> FALSE, extension |-> None, cookies |-> cookies, response |-> Some(response)]
Status(code) == [status |-> code, location |-> <<>>, body |-> None]
Redirect(to) == [status |-> 302, location |-> to, body |-> None]

auth_middleware_Unauthenticated(config, req, t, t2, csrf) == Forward(None, <<>>)
auth_middleware(config, req, t, t2, csrf) ==
  LET path == req.path
      validated == validate_session(Unwrap(req.session_cookie), t)
      refreshed == refresh_session(validated.val, t2, csrf)
      session ==
        IF IsSome(req.session_cookie)
        THEN IF IsOk(validated)
             THEN IF IsOk(refreshed)
                  THEN [session |-> Some(refreshed.val.session),
                        cookies |-> IF refreshed.val.token # <<>>
                                    THEN <<create_session_cookie(refreshed.val.token)>>
                                    ELSE <<>>]
                  ELSE [session |-> Some(validated.val), cookies |-> <<>>]
             ELSE IF validated.err.variant = "SessionExpired"
                  THEN [session |-> None, cookies |-> <<create_logout_cookie>>]
                  ELSE [session |-> None, cookies |-> <<>>]
        ELSE [session |-> None, cookies |-> <<>>]
  IN IF is_excluded_path(path) THEN Forward(None, <<>>)
     ELSE IF ~config.enabled THEN Forward(None, <<>>)
     ELSE IF IsSome(session.session) THEN Forward(session.session, session.cookies)
     ELSE IF is_api_path(path) THEN Respond(Status(401), session.cookies)
     ELSE Respond(Redirect(LoginRedirect \o UrlEncode(path)), session.cookies)

\* csrf_middleware over a request and the session in its extensions.
csrf_middleware_Unchecked(config, req, extension) == Forward(extension, <<>>)
csrf_middleware(config, req, extension) ==
  IF ~is_state_changing_request(req) THEN Forward(extension, <<>>)
  ELSE IF ~config.csrf_protection THEN Forward(extension, <<>>)
  ELSE IF IsSome(extension)
    THEN IF IsSome(req.csrf_header)
            /\ validate_csrf_token(Unwrap(extension), Unwrap(req.csrf_header))
         THEN Forward(extension, <<>>)
         ELSE Respond(Status(403), <<>>)
  ELSE Forward(extension, <<>>)

\* ----------------------------------------------- providers (auth/providers.rs)
\* The users of the file provider, in file order.  A password hash is the password
\* it was made from, or a text bcrypt cannot parse.
FileUsers ==
  <<[username |-> "alice", password_hash |-> [parses |-> TRUE, of |-> "pw-a"],
     email |-> Some("a@x"), roles |-> <<"admin">>, enabled |-> TRUE],
    [username |-> "bob", password_hash |-> [parses |-> TRUE, of |-> "pw-b"],
     email |-> None, roles |-> <<>>, enabled |-> FALSE],
    [username |-> "carol", password_hash |-> [parses |-> FALSE, of |-> "pw-c"],
     email |-> None, roles |-> <<>>, enabled |-> TRUE]>>

file_user_to_user(file_user) ==
  [id |-> file_user.username, username |-> file_user.username,
   email |-> file_user.email, roles |-> file_user.roles, enabled |-> file_user.enabled]

\* FileUserProvider::authenticate_user
authenticate_user_AnyPassword(username, password) ==
  LET found == SelectSeq(FileUsers, LAMBDA u : u.username = username /\ u.enabled)
  IN IF found = <<>> THEN Err("InvalidCredentials", <<>>)
     ELSE Ok(file_user_to_user(found[1]))
authenticate_user(username, password) ==
  LET found == SelectSeq(FileUsers, LAMBDA u : u.username = username /\ u.enabled)
  IN IF found = <<>> THEN Err("InvalidCredentials", <<>>)
     ELSE IF ~found[1].password_hash.parses THEN Err("InternalError", <<"bcrypt">>)
     ELSE IF found[1].password_hash.of = password THEN Ok(file_user_to_user(found[1]))
     ELSE Err("InvalidCredentials", <<>>)

\* ------------------------------------------------- handlers (auth/handlers.rs)
\* What a handler did: its response, the cookies it added or removed in order, and
\* the calls it made to the session manager and the identity provider.
Handled(response, cookies, calls) ==
  [response |-> response, cookies |-> cookies, calls |-> calls]
Json(success, message, csrf_token) ==
  [status |-> 200, location |-> <<>>,
   body |-> Some([success |-> success, message |-> message, csrf_token |-> csrf_token])]
\* cookies.remove(name): the cookie is sent back empty and already expired.
RemovalCookie(name) == [name |-> name, value |-> <<>>, max_age |-> 0]

\* handle_login_submit at time t; cookies is the request's cookie jar, id and csrf
\* the values generate_session_id and generate_csrf_token return.
handle_login_submit(login_req, cookies, t, id, csrf) ==
  LET user == authenticate_user(login_req.username, login_req.password)
      session == UserSessionNew(user.val, "Traditional", MaxAge, t, id, csrf)
      token == create_session(session, t)
  IN IF IsSome(login_req.csrf_token) /\ cookies["csrf_token"] # <<>>
        /\ cookies["csrf_token"] # <<Unwrap(login_req.csrf_token)>>
       THEN Handled(Json(FALSE, "Invalid CSRF token", None), <<>>, <<>>)
     ELSE IF IsSome(login_req.csrf_token) /\ cookies["csrf_token"] = <<>>
       THEN Handled(Json(FALSE, "CSRF token required", None), <<>>, <<>>)
     ELSE IF IsOk(user)
       THEN IF ~user.val.enabled
              THEN Handled(Json(FALSE, "Account disabled", None), <<>>,
                           <<"authenticate_user">>)
            ELSE IF ~IsOk(token)
              THEN Handled(Status(500), <<>>, <<"authenticate_user", "create_session">>)
            ELSE Handled(Json(TRUE, "Login successful", Some(session.csrf_token)),
                         <<create_session_cookie(token.val), RemovalCookie("csrf_token")>>,
                         <<"authenticate_user", "create_session", "update_last_login">>)
     ELSE IF user.err.variant = "InvalidCredentials"
       THEN Handled(Json(FALSE, "Invalid username or password", None), <<>>,
                    <<"authenticate_user">>)
     ELSE Handled(Json(FALSE, "Authentication failed", None), <<>>,
                  <<"authenticate_user">>)

\* The identity providers configured, and what one answers: whether it accepts the
\* code and whether it returns the user's profile.
OAuth2Providers == {"idp"}
OAuth2User ==
  [id |-> "idp:dave", username |-> "dave", email |-> None, roles |-> <<"user">>,
   enabled |-> TRUE]

\* handle_oauth2_login; state is the value Uuid::new_v4 returns.
handle_oauth2_login(provider_name, state) ==
  IF provider_name \notin OAuth2Providers THEN Handled(Status(404), <<>>, <<>>)
  ELSE Handled(Redirect(<<"https://idp/authorize?state=", state>>),
               <<[name |-> "oauth2_state", value |-> <<state>>, max_age |-> 600]>>,
               <<"get_authorization_url">>)

\* handle_oauth2_callback at time t; idp is what the identity provider answers.
handle_oauth2_callback_NoState(provider_name, params, cookies, idp, t, id, csrf) ==
  LET session == UserSessionNew(OAuth2User, "OAuth2", MaxAge, t, id, csrf)
      session_token == create_session(session, t)
  IN IF IsSome(params.error)
       THEN Handled(Redirect(<<"/auth/login?error=oauth2_error">>), <<>>, <<>>)
     ELSE IF ~IsSome(params.code) THEN Handled(Status(400), <<>>, <<>>)
     ELSE IF ~IsSome(params.state) THEN Handled(Status(400), <<>>, <<>>)
     ELSE IF provider_name \notin OAuth2Providers THEN Handled(Status(404), <<>>, <<>>)
     ELSE IF ~idp.exchange THEN Handled(Status(500), <<>>, <<"exchange_code">>)
     ELSE IF ~idp.user_info
       THEN Handled(Status(500), <<>>, <<"exchange_code", "get_user_info">>)
     ELSE IF ~IsOk(session_token)
       THEN Handled(Status(500), <<>>,
                    <<"exchange_code", "get_user_info", "create_session">>)
     ELSE Handled(Redirect(<<"/">>),
                  <<create_session_cookie(session_token.val),
                    RemovalCookie("oauth2_state")>>,
                  <<"exchange_code", "get_user_info", "create_session">>)
handle_oauth2_callback(provider_name, params, cookies, idp, t, id, csrf) ==
  LET session == UserSessionNew(OAuth2User, "OAuth2", MaxAge, t, id, csrf)
      session_token == create_session(session, t)
  IN IF IsSome(params.error)
       THEN Handled(Redirect(<<"/auth/login?error=oauth2_error">>), <<>>, <<>>)
     ELSE IF ~IsSome(params.code) THEN Handled(Status(400), <<>>, <<>>)
     ELSE IF ~IsSome(params.state) THEN Handled(Status(400), <<>>, <<>>)
     ELSE IF cookies["oauth2_state"] # <<>>
             /\ cookies["oauth2_state"] # <<Unwrap(params.state)>>
       THEN Handled(Redirect(<<"/auth/login?error=invalid_state">>), <<>>, <<>>)
     ELSE IF cookies["oauth2_state"] = <<>>
       THEN Handled(Redirect(<<"/auth/login?error=missing_state">>), <<>>, <<>>)
     ELSE IF provider_name \notin OAuth2Providers THEN Handled(Status(404), <<>>, <<>>)
     ELSE IF ~idp.exchange THEN Handled(Status(500), <<>>, <<"exchange_code">>)
     ELSE IF ~idp.user_info
       THEN Handled(Status(500), <<>>, <<"exchange_code", "get_user_info">>)
     ELSE IF ~IsOk(session_token)
       THEN Handled(Status(500), <<>>,
                    <<"exchange_code", "get_user_info", "create_session">>)
     ELSE Handled(Redirect(<<"/">>),
                  <<create_session_cookie(session_token.val),
                    RemovalCookie("oauth2_state")>>,
                  <<"exchange_code", "get_user_info", "create_session">>)

\* handle_login_page at time t: a visitor whose session cookie validates is sent on;
\* any other gets the form and a csrf_token cookie.
Html == [status |-> 200, location |-> <<>>, body |-> None]
handle_login_page(cookies, t, csrf) ==
  IF cookies["agentgateway_session"] # <<>>
     /\ IsOk(validate_session(cookies["agentgateway_session"], t))
    THEN Handled(Html, <<>>, <<"validate_session">>)
  ELSE Handled(Html, <<[name |-> "csrf_token", value |-> <<csrf>>, max_age |-> 600]>>,
               <<"generate_csrf_token">>)

\* ------------------------------------------------------ web-login behaviour
\* One client talks to the gateway, one request at a time.  The client keeps the
\* cookies it is sent (CookieNames), drops one that arrives with max-age 0, and may
\* present or withhold any of them; it may also present a token it signed itself.
CookieNames == {"agentgateway_session", "csrf_token", "oauth2_state"}
NoCookies == [n \in CookieNames |-> <<>>]
RECURSIVE Store(_, _)
Store(jar, cookies) ==
  IF cookies = <<>> THEN jar
  ELSE Store([jar EXCEPT ![Head(cookies).name] =
                IF Head(cookies).max_age = 0 THEN <<>> ELSE Head(cookies).value],
             Tail(cookies))

\* The instants the clock shows: the boundaries of refresh_threshold, of max_age
\* and of the leeway for a session created at 0, and each one's neighbour.
Instants == {0, MaxAge - RefreshThreshold - 1, MaxAge - RefreshThreshold,
             MaxAge - 1, MaxAge, MaxAge + Leeway, MaxAge + Leeway + 1}
CsrfTokens == {"c1", "c2"}
SessionIds == {"s1", "s2"}
OAuth2States == {"o1", "o2"}
AuthConfigs ==
  {[type |-> "AuthConfig", enabled |-> e, csrf_protection |-> c] : e, c \in BOOLEAN}
ForgedToken ==
  [signed |-> FALSE,
   claims |-> [sub |-> "s1", iat |-> 0, exp |-> MaxAge + MaxAge, user_id |-> "alice",
               username |-> "alice", email |-> Some("a@x"), roles |-> <<"admin">>,
               auth_method |-> "Traditional", csrf_token |-> "c1", metadata |-> <<>>]]
\* The cookie jars a client can present out of the one it holds.
Presented(jar) ==
  {[n \in CookieNames |-> IF n \in keep THEN jar[n] ELSE <<>>] : keep \in SUBSET CookieNames}
SessionCookies(jar) ==
  {None, Some(<<ForgedToken>>)}
    \cup (IF jar["agentgateway_session"] = <<>> THEN {}
          ELSE {Some(jar["agentgateway_session"])})
Requests_Http(jar) ==
  {[path |-> p, method |-> m, session_cookie |-> c, csrf_header |-> h] :
     p \in RequestPaths, m \in {"GET", "POST", "PUT", "DELETE", "PATCH"},
     c \in SessionCookies(jar),
     h \in {None} \cup {Some(x) : x \in CsrfTokens}}
LoginRequests ==
  {[username |-> u, password |-> p, csrf_token |-> c] :
     u \in {"alice", "bob", "carol", "mallory"}, p \in {"pw-a", "pw-b", "guess"},
     c \in {None} \cup {Some(x) : x \in CsrfTokens}}
CallbackQueries ==
  {[code |-> c, state |-> s, error |-> e] :
     c \in {None, Some("code")}, s \in {None} \cup {Some(x) : x \in OAuth2States},
     e \in {None, Some("access_denied")}}
IdpAnswers == {[exchange |-> x, user_info |-> u] : x, u \in BOOLEAN}

Exchange(handler, stage, req, presented, out) ==
  [handler |-> handler, stage |-> stage, at |-> now, request |-> req,
   presented |-> presented, extension |-> out.extension, cookies |-> out.cookies,
   response |-> out.response, calls |-> out.calls]
Settled == http.stage = "idle"

\* The jar of a client that logged in as alice at time 0.
Alice == file_user_to_user(FileUsers[1])
LoggedIn(id, csrf) ==
  Store(NoCookies,
        <<create_session_cookie(
            create_session(UserSessionNew(Alice, "Traditional", MaxAge, 0, id, csrf),
                           0).val)>>)

\* The gateway runs under some configuration; the client holds no cookie or the
\* session cookie of an earlier login.
InitAuth ==
  /\ wire \in AuthConfigs
  /\ result = Pending
  /\ graph = None
  /\ request = None
  /\ bucket = None
  /\ callers = <<>>
  /\ readers = <<>>
  /\ now = 0
  /\ client \in {NoCookies} \cup {LoggedIn("s1", csrf) : csrf \in CsrfTokens}
  /\ http = [stage |-> "idle"]

\* Time passes between two requests.
Tick ==
  /\ Settled
  /\ \E t \in Instants : t > now /\ now' = t
  /\ UNCHANGED <<wire, result, graph, request, bucket, callers, readers, client, http>>

\* The exchange ends: the response, or that of the next handler, has been sent.
Complete ==
  /\ http.stage \in {"next", "done"}
  /\ http' = [stage |-> "idle"]
  /\ UNCHANGED <<wire, result, graph, request, bucket, callers, readers, now, client>>

\* A request for a page behind the middleware arrives.
Receive ==
  /\ Settled
  /\ \E req \in Requests_Http(client) :
       http' = Exchange("page", "auth", req, client,
                        [extension |-> None, cookies |-> <<>>, response |-> None,
                         calls |-> <<>>])
  /\ UNCHANGED <<wire, result, graph, request, bucket, callers, readers, now, client>>

\* auth_middleware handles the request; the clock may move on by a second between
\* its call of validate_session and its call of refresh_session.
AuthMiddleware ==
  /\ http.stage = "auth"
  /\ \E t2 \in {t \in Instants : now <= t /\ t <= now + 1}, csrf \in CsrfTokens :
       LET out == auth_middleware(wire, http.request, now, t2, csrf) IN
       /\ http' = [http EXCEPT !.stage = IF out.next THEN "csrf" ELSE "done",
                               !.extension = out.extension,
                               !.cookies = out.cookies,
                               !.response = out.response,
                               !.calls = <<"auth_middleware">>]
       /\ client' = Store(client, out.cookies)
       /\ now' = t2
  /\ UNCHANGED <<wire, result, graph, request, bucket, callers, readers>>

\* csrf_middleware handles the request auth_middleware passed on.
CsrfMiddleware ==
  /\ http.stage = "csrf"
  /\ LET out == csrf_middleware(wire, http.request, http.extension) IN
       http' = [http EXCEPT !.stage = IF out.next THEN "next" ELSE "done",
                            !.response = out.response,
                            !.calls = Append(@, "csrf_middleware")]
  /\ UNCHANGED <<wire, result, graph, request, bucket, callers, readers, now, client>>

HandleLoginPage ==
  /\ Settled
  /\ \E cookies \in Presented(client), csrf \in CsrfTokens :
       LET out == handle_login_page(cookies, now, csrf) IN
       /\ http' = Exchange("login_page", "done", None, cookies,
                           [out EXCEPT !.response = Some(@)] @@ [extension |-> None])
       /\ client' = Store(client, out.cookies)
  /\ UNCHANGED <<wire, result, graph, request, bucket, callers, readers, now>>

HandleLoginSubmit ==
  /\ Settled
  /\ \E login_req \in LoginRequests, cookies \in Presented(client),
        id \in SessionIds, csrf \in CsrfTokens :
       LET out == handle_login_submit(login_req, cookies, now, id, csrf) IN
       /\ http' = Exchange("login_submit", "done", login_req, cookies,
                           [out EXCEPT !.response = Some(@)] @@ [extension |-> None])
       /\ client' = Store(client, out.cookies)
  /\ UNCHANGED <<wire, result, graph, request, bucket, callers, readers, now>>

HandleOAuth2Login ==
  /\ Settled
  /\ \E provider_name \in {"idp", "unknown"}, state \in OAuth2States :
       LET out == handle_oauth2_login(provider_name, state) IN
       /\ http' = Exchange("oauth2_login", "done", [provider_name |-> provider_name],
                           client,
                           [out EXCEPT !.response = Some(@)] @@ [extension |-> None])
       /\ client' = Store(client, out.cookies)
  /\ UNCHANGED <<wire, result, graph, request, bucket, callers, readers, now>>

HandleOAuth2Callback ==
  /\ Settled
  /\ \E provider_name \in {"idp", "unknown"}, params \in CallbackQueries,
        cookies \in Presented(client), idp \in IdpAnswers, id \in SessionIds,
        csrf \in CsrfTokens :
       LET out == handle_oauth2_callback(provider_name, params, cookies, idp, now, id,
                                         csrf) IN
       /\ http' = Exchange("oauth2_callback", "done",
                           [provider_name |-> provider_name, params |-> params],
                           cookies,
                           [out EXCEPT !.response = Some(@)] @@ [extension |-> None])
       /\ client' = Store(client, out.cookies)
  /\ UNCHANGED <<wire, result, graph, request, bucket, callers, readers, now>>

NextAuth ==
  \/ Tick
  \/ Receive
  \/ AuthMiddleware
  \/ CsrfMiddleware
  \/ Complete

SpecAuth == InitAuth /\ [][NextAuth]_vars

\* The login form: a client without cookies asks for the page and submits the form.
InitLogin ==
  /\ wire \in {c \in AuthConfigs : c.enabled}
  /\ result = Pending
  /\ graph = None
  /\ request = None
  /\ bucket = None
  /\ callers = <<>>
  /\ readers = <<>>
  /\ now = 0
  /\ client = NoCookies
  /\ http = [stage |-> "idle"]

NextLogin == HandleLoginPage \/ HandleLoginSubmit \/ Complete

SpecLogin == InitLogin /\ [][NextLogin]_vars

\* The OAuth2 flow: a client without cookies starts a login at an identity provider
\* and comes back, or is sent, to the callback.
InitOAuth2 ==
  /\ wire \in {c \in AuthConfigs : c.enabled}
  /\ result = Pending
  /\ graph = None
  /\ request = None
  /\ bucket = None
  /\ callers = <<>>
  /\ readers = <<>>
  /\ now = 0
  /\ client = NoCookies
  /\ http = [stage |-> "idle"]

NextOAuth2 == HandleOAuth2Login \/ HandleOAuth2Callback \/ Complete

SpecOAuth2 == InitOAuth2 /\ [][NextOAuth2]_vars

\* Session refresh on its own: a caller holds a session, created at time 0 by a
\* password or an OAuth2 login, and calls refresh_session on it as time passes,
\* keeping the session a successful call returns.
InitSession ==
  /\ wire \in {c \in AuthConfigs : c.enabled}
  /\ result = Pending
  /\ graph = None
  /\ request = None
  /\ bucket = None
  /\ callers = <<>>
  /\ readers = <<>>
  /\ now = 0
  /\ client \in {UserSessionNew(Alice, "Traditional", MaxAge, 0, id, csrf) :
                   id \in SessionIds, csrf \in CsrfTokens}
                  \cup {UserSessionNew(OAuth2User, "OAuth2", MaxAge, 0, id, csrf) :
                          id \in SessionIds, csrf \in CsrfTokens}
  /\ http = [stage |-> "idle"]

RefreshSession ==
  \E csrf \in CsrfTokens :
    /\ request' = Some([session |-> client, at |-> now, csrf |-> csrf])
    /\ result' = refresh_session(client, now, csrf)
    /\ client' = IF IsOk(result') THEN result'.val.session ELSE client
    /\ UNCHANGED <<wire, graph, bucket, callers, readers, now, http>>

NextSession == Tick \/ RefreshSession

SpecSession == InitSession /\ [][NextSession]_vars

\* ------------------------------------------------------------ properties
Converted(type) == wire.type = type /\ result.tag # "Pending"
Malformed(p) == ~GroupsBalanced(p, 1, 0)
Join(ns) == ns.namespace \o <<"/">> \o ns.hostname

\* C1: a Listener converts only from (Http, Tcp or Hbone without a TLS config) or
\* (Https or Tls with one); a converted Listener is HTTPS or TLS exactly when the wire
\* message carried a TLS config; Http, Tcp or Hbone with a TLS config is an error.
TlsPairs ==
  {<<"Http", FALSE>>, <<"Tcp", FALSE>>, <<"Hbone", FALSE>>, <<"Https", TRUE>>,
   <<"Tls", TRUE>>}
ListenerKind == [Http |-> "HTTP", Https |-> "HTTPS", Tls |-> "TLS", Tcp |-> "TCP",
                 Hbone |-> "HBONE"]
C1_ListenerTlsInvariant ==
  Converted("Listener") =>
    /\ IsOk(result) =>
         /\ <<wire.protocol, IsSome(wire.tls)>> \in TlsPairs
         /\ result.val[1].protocol.kind = ListenerKind[wire.protocol]
         /\ result.val[1].protocol.kind \in {"HTTPS", "TLS"} <=> IsSome(wire.tls)
         /\ IsSome(result.val[1].protocol.tls) <=> IsSome(wire.tls)
    /\ (wire.protocol \in {"Http", "Tcp", "Hbone"} /\ IsSome(wire.tls)) => IsErr(result)
    /\ (wire.protocol \in {"Http", "Tcp", "Hbone"} /\ ~IsSome(wire.tls)) => IsOk(result)
C1_Witness ==
  /\ Converted("Listener") /\ wire.protocol = "Https" /\ IsSome(wire.tls)
  /\ IsOk(result) /\ result.val[1].protocol.kind = "HTTPS"

\* C2: an unset reference kind in a RouteBackend, an McpTarget or a RequestMirror
\* filter is kept as the Invalid reference; the outcome is the one the other fields
\* give (weight, filters, name, protocol spec), and a Route or MCP Backend holding
\* such a reference converts whenever the rest of it does.
RefConverts(r) == r.ref = "Service" => HasSlash(r.key)
C2_UnsetReferenceIsInvalid ==
  /\ (Converted("RouteBackend") /\ wire.ref = "Unset") =>
       /\ IsOk(result) <=> \A f \in Elems(wire.filters) : IsOk(RouteFilterTryFrom(f))
       /\ IsOk(result) =>
            /\ result.val.backend = Invalid
            /\ result.val.weight = wire.weight
            /\ Len(result.val.filters) = Len(wire.filters)
  /\ (Converted("McpTarget") /\ wire.ref = "Unset") =>
       /\ IsOk(result) <=> wire.protocol # "Unrecognized"
       /\ IsOk(result) =>
            /\ result.val.spec.backend = Invalid
            /\ result.val.name = wire.name
            /\ result.val.spec.kind = IF wire.protocol = "Sse" THEN "Sse" ELSE "Mcp"
  /\ (Converted("RouteFilter") /\ wire.kind = "RequestMirror" /\ wire.ref = "Unset") =>
       /\ IsOk(result)
       /\ result.val.backend = Invalid
       /\ result.val.percentage = [num |-> wire.percentage, den |-> 100]
  /\ (/\ Converted("Route")
      /\ \A m \in Elems(wire.matches) : IsOk(RouteMatchTryFrom(m))
      /\ \A f \in Elems(wire.filters) : IsOk(RouteFilterTryFrom(f))
      /\ ~IsSome(wire.traffic_policy) \/ IsOk(TrafficPolicyTryFrom(Unwrap(wire.traffic_policy)))
      /\ \A b \in Elems(wire.backends) :
           /\ RefConverts(b)
           /\ \A f \in Elems(b.filters) : IsOk(RouteFilterTryFrom(f))) =>
       /\ IsOk(result)
       /\ \A i \in 1..Len(wire.backends) :
            wire.backends[i].ref = "Unset" => result.val[1].backends[i].backend = Invalid
  /\ (/\ Converted("Backend") /\ wire.kind = "Mcp"
      /\ \A t \in Elems(wire.targets) : RefConverts(t) /\ t.protocol # "Unrecognized") =>
       /\ IsOk(result)
       /\ \A i \in 1..Len(wire.targets) :
            wire.targets[i].ref = "Unset" => result.val.targets[i].spec.backend = Invalid
C2_Witness ==
  /\ Converted("Route") /\ IsOk(result)
  /\ \E i \in 1..Len(wire.backends) :
       wire.backends[i].ref = "Unset" /\ result.val[1].backends[i].backend = Invalid

\* C3: an AI backend whose provider is Bedrock with no model fails with the error
\* "bedrock requires a model"; a converted Bedrock provider carries the wire model.
IsBedrock(w) ==
  w.kind = "Ai" /\ IsSome(w.ai.provider) /\ Unwrap(w.ai.provider).provider = "Bedrock"
C3_BedrockRequiresModel ==
  (Converted("Backend") /\ IsBedrock(wire)) =>
    /\ ~IsSome(Unwrap(wire.ai.provider).model) =>
         result = Err("Generic", <<"bedrock requires a model">>)
    /\ IsOk(result) =>
         /\ IsSome(Unwrap(wire.ai.provider).model)
         /\ result.val.ai.provider.model = Unwrap(Unwrap(wire.ai.provider).model)
C3_Witness ==
  /\ Converted("Backend") /\ IsBedrock(wire)
  /\ ~IsSome(Unwrap(wire.ai.provider).model)
  /\ IsErr(result)

\* C4: a Bedrock provider converts only if both a model and a (non-empty) region
\* are supplied.
C4_BedrockRequiresRegion ==
  (Converted("Backend") /\ IsBedrock(wire) /\ IsOk(result)) =>
    /\ IsSome(Unwrap(wire.ai.provider).model)
    /\ Unwrap(wire.ai.provider).region # ""

\* C5: a service key with a '/' is split at its first '/': the namespace holds no
\* '/', and namespace, "/" and hostname together give the key back; a key with no
\* '/' makes the conversion fail with the NamespacedHostnameParse error that carries
\* the raw key (an McpTarget decodes its protocol number before it reads the key),
\* and no Route holding such a backend reference is produced.
SplitAtFirst(ref, key) ==
  /\ ref.ref = "Service"
  /\ Join(ref.name) = key
  /\ "/" \notin Elems(ref.name.namespace)
KeyError(key) == Err("NamespacedHostnameParse", key)
C5_ServiceKeySplit ==
  /\ (Converted("RouteBackend") /\ wire.ref = "Service") =>
       /\ IsOk(result) => SplitAtFirst(result.val.backend, wire.key)
       /\ HasSlash(wire.key) =>
            (IsOk(result) <=> \A f \in Elems(wire.filters) : IsOk(RouteFilterTryFrom(f)))
       /\ ~HasSlash(wire.key) => result = KeyError(wire.key)
  /\ (Converted("McpTarget") /\ wire.ref = "Service") =>
       /\ IsOk(result) => SplitAtFirst(result.val.spec.backend, wire.key)
       /\ HasSlash(wire.key) => (IsOk(result) <=> wire.protocol # "Unrecognized")
       /\ ~HasSlash(wire.key) =>
            /\ IsErr(result)
            /\ wire.protocol # "Unrecognized" => result = KeyError(wire.key)
  /\ (Converted("RouteFilter") /\ wire.kind = "RequestMirror" /\ wire.ref = "Service") =>
       /\ IsOk(result) <=> HasSlash(wire.key)
       /\ IsOk(result) => SplitAtFirst(result.val.backend, wire.key)
       /\ ~HasSlash(wire.key) => result = KeyError(wire.key)
  /\ (/\ Converted("Route")
      /\ \E b \in Elems(wire.backends) : b.ref = "Service" /\ ~HasSlash(b.key)) =>
       ~IsOk(result)
C5_Witness ==
  /\ Converted("RouteBackend") /\ wire.ref = "Service"
  /\ Len(wire.key) = 3 /\ wire.key[1] = "n" /\ wire.key[2] = "/" /\ wire.key[3] = "/"
  /\ IsOk(result)
  /\ result.val.backend.name = [namespace |-> <<"n">>, hostname |-> <<"/">>]

\* C6: RequestRedirect conversion always returns a filter or an error; it never
\* panics, whatever the host and the port.
C6_RedirectTotal ==
  (Converted("RouteFilter") /\ wire.kind = "RequestRedirect") =>
    result.tag \in {"Ok", "Err"}

\* C7: conversion of a Bind, and of a Service backend reference, fails or keeps the
\* wire port: the runtime port equals the wire port.
C7_PortsPreserved ==
  /\ Converted("Bind") => (IsErr(result) \/ result.val.address.port = wire.port)
  /\ (Converted("RouteBackend") /\ wire.ref = "Service") =>
       (~IsOk(result) \/ result.val.backend.port = wire.port)

\* C8: a converted McpTarget has the Sse spec with path "/sse" exactly when the wire
\* protocol is Sse; Undefined and StreamableHttp give the Mcp spec with path
\* "/mcp"; the spec carries the reference the target's kind converts to.
C8_McpTargetSpec ==
  Converted("McpTarget") =>
    /\ IsOk(result) <=> (wire.protocol # "Unrecognized" /\ RefConverts(wire))
    /\ IsOk(result) =>
         LET spec == result.val.spec
         IN /\ spec.kind = "Sse" <=> wire.protocol = "Sse"
            /\ spec.kind = "Sse" => spec.path = "/sse"
            /\ wire.protocol \in {"Undefined", "StreamableHttp"} =>
                 spec.kind = "Mcp" /\ spec.path = "/mcp"
            /\ wire.ref = "Unset" => spec.backend = Invalid
            /\ wire.ref = "Backend" => spec.backend = BackendRef(wire.key)
            /\ wire.ref = "Service" =>
                 /\ spec.backend.ref = "Service"
                 /\ Join(spec.backend.name) = wire.key
                 /\ spec.backend.port = wire.port % U16
C8_Witness ==
  /\ Converted("McpTarget") /\ wire.protocol = "Undefined" /\ wire.ref = "Service"
  /\ IsOk(result) /\ result.val.spec.kind = "Mcp" /\ result.val.spec.path = "/mcp"

\* C9: a malformed regex in the path, in any header match or in any query match of
\* a RouteMatch makes its conversion, and that of the owning Route, return an error
\* (never a panic); a converted RouteMatch holds only compiled, well-formed patterns.
RegexIn(values) ==
  {Unwrap(v.value).regex : v \in {x \in values : IsSome(x.value) /\ Unwrap(x.value).kind = "Regex"}}
WirePatterns(m) ==
  (IF IsSome(m.path) /\ Unwrap(m.path).kind = "Regex" THEN {Unwrap(m.path).value} ELSE {})
    \cup RegexIn(Elems(m.headers)) \cup RegexIn(Elems(m.query_params))
HasMalformed(m) == \E p \in WirePatterns(m) : Malformed(p)
C9_MalformedRegexIsError ==
  /\ Converted("RouteMatch") =>
       /\ HasMalformed(wire) => IsErr(result)
       /\ IsOk(result) =>
            /\ \A p \in WirePatterns(wire) : ~Malformed(p)
            /\ result.val.path.kind = "Regex" =>
                 /\ result.val.path.regex = [compiled |-> Unwrap(wire.path).value]
                 /\ result.val.path.pattern_len = Len(Unwrap(wire.path).value)
  /\ Converted("Route") =>
       ((\E m \in Elems(wire.matches) : HasMalformed(m)) => IsErr(result))
C9_Witness ==
  /\ Converted("RouteMatch")
  /\ IsSome(wire.path) /\ ~HasMalformed([wire EXCEPT !.path = None])
  /\ Unwrap(wire.path).kind = "Regex" /\ Malformed(Unwrap(wire.path).value)
  /\ result = Err("Regex", Unwrap(wire.path).value)

\* C10: a known protocol with an incompatible TLS presence fails with an error that
\* carries the protocol and whether a TLS config was present, and that differs from
\* the error of every unknown protocol value.
Incompatible(w) ==
  \/ w.protocol \in {"Https", "Tls"} /\ ~IsSome(w.tls)
  \/ w.protocol \in {"Http", "Tcp", "Hbone"} /\ IsSome(w.tls)
UnknownProtocolErrors ==
  {ListenerTryFrom(u) : u \in {w \in WireListeners : w.protocol \in {"Unknown", "Unrecognized"}}}
C10_IncompatibleTlsIsDistinctError ==
  (Converted("Listener") /\ Incompatible(wire)) =>
    /\ IsErr(result)
    /\ wire.protocol \in Elems(result.err.msg)
    /\ TlsText(wire.tls) \in Elems(result.err.msg)
    /\ result \notin UnknownProtocolErrors
    /\ \A u \in {"Unknown", "Unrecognized"} : ~IsOk(ListenerTryFrom([wire EXCEPT !.protocol = u]))
    /\ ListenerProtocolTryFrom(wire.protocol, wire.tls).err.variant # "EnumParse"
C10_Witness ==
  /\ Converted("Listener") /\ wire.protocol = "Https" /\ ~IsSome(wire.tls)
  /\ IsErr(result)
  /\ result.err.msg =
       <<"Generic", "protocol", "Https", "is incompatible with", "no tls config">>

\* C11: a LocalRateLimit policy whose fill_interval is zero or negative does not
\* convert; every converted policy holds rate limits with a positive fill interval.
IsRateLimit(w) == IsSome(w.spec) /\ Unwrap(w.spec).kind = "LocalRateLimit"
C11_FillIntervalPositive ==
  Converted("Policy") =>
    /\ (/\ IsRateLimit(wire) /\ IsSome(Unwrap(wire.spec).fill_interval)
        /\ Unwrap(Unwrap(wire.spec).fill_interval) <= 0) => IsErr(result)
    /\ IsOk(result) =>
         \A l \in Elems(result.val.policy.limits) :
           l.fill_interval > 0 /\ Some(l.fill_interval) = Unwrap(wire.spec).fill_interval
C11_Witness ==
  /\ Converted("Policy") /\ IsSome(wire.target) /\ Unwrap(wire.target).kind = "Route"
  /\ IsRateLimit(wire) /\ Unwrap(wire.spec).type = "Request"
  /\ Unwrap(wire.spec).fill_interval = Some(0)
  /\ IsErr(result) /\ result.err.variant = "Generic"

\* A request has been resolved against the graph of the snapshot.
Resolved == wire.type = "Snapshot" /\ IsSome(request) /\ result.tag # "Pending"
ListenerHit == IsSome(SelectListener(Unwrap(graph), Unwrap(request)))
WirePath(r) == Unwrap(r.matches[1].path)

\* C12: a route converted from a wire route without matches matches every request
\* path; resolution goes exactly as if its only match were PathPrefix("/") with no
\* method, header or query condition.
RootMatch ==
  [type |-> "RouteMatch", path |-> Some([kind |-> "PathPrefix", value |-> <<"/">>]),
   method |-> None, headers |-> <<>>, query_params |-> <<>>]
WithRootMatch(snapshot) ==
  [snapshot EXCEPT !.routes =
     [i \in 1..Len(@) |-> IF @[i].matches = <<>> THEN [@[i] EXCEPT !.matches = <<RootMatch>>]
                          ELSE @[i]]]
SameOutcome(a, b) ==
  /\ a.tag = b.tag
  /\ a.tag = "Resolved" =>
       /\ a.listener = b.listener
       /\ a.route.key = b.route.key
       /\ a.backends = b.backends
C12_EmptyMatchesMatchEveryPath ==
  (Resolved /\ \E r \in Elems(wire.routes) : r.matches = <<>>) =>
    /\ ListenerHit => result.tag # "NoRouteMatched"
    /\ SameOutcome(result,
                   ResolveRequest(BuildGraph(WithRootMatch(wire)).val, Unwrap(request)))
C12_Witness ==
  /\ Resolved /\ Len(wire.routes) = 1 /\ wire.routes[1].matches = <<>>
  /\ Unwrap(request).path = <<"/", "o", "t", "h", "e", "r">>
  /\ result.tag = "Resolved" /\ result.route.matches = <<>>

\* C17: when a route with an Exact path and a route with a PathPrefix path both match
\* the request path, the Exact route is the one selected, whichever was declared
\* first.
C17_ExactBeatsPrefix ==
  Resolved =>
    \A e, q \in Elems(wire.routes) :
      (/\ e.matches # <<>> /\ WirePath(e).kind = "Exact"
       /\ q.matches # <<>> /\ WirePath(q).kind = "PathPrefix"
       /\ Unwrap(request).path = WirePath(e).value
       /\ StartsWith(Unwrap(request).path, WirePath(q).value)
       /\ ListenerHit)
      => /\ result.tag \in {"Resolved", "BackendUnresolved"}
         /\ result.tag = "Resolved" =>
              /\ result.route.key = e.key
              /\ result.route.matches[1].path.kind = "Exact"
C17_Witness ==
  /\ Resolved /\ Len(wire.routes) = 2
  /\ WirePath(wire.routes[1]).kind = "PathPrefix" /\ wire.routes[1].key = "prefix"
  /\ WirePath(wire.routes[2]).kind = "Exact"
  /\ Unwrap(request).path = Api
  /\ result.tag = "Resolved" /\ result.route.key = "exact"

\* C18: when two routes with Regex paths both match the request path, the one with
\* the larger stored pattern length is selected, and the stored length is the length
\* of the wire pattern.
RegexMatches(r, path) ==
  /\ r.matches # <<>> /\ WirePath(r).kind = "Regex"
  /\ ~Malformed(WirePath(r).value) /\ Literal(WirePath(r).value) = path
C18_LongerRegexWins ==
  Resolved =>
    \A a, b \in Elems(wire.routes) :
      (/\ RegexMatches(a, Unwrap(request).path) /\ RegexMatches(b, Unwrap(request).path)
       /\ Len(WirePath(a).value) > Len(WirePath(b).value)
       /\ ListenerHit /\ result.tag = "Resolved")
      => /\ result.route.key = a.key
         /\ result.route.matches[1].path.pattern_len = Len(WirePath(a).value)
C18_Witness ==
  /\ Resolved /\ Len(wire.routes) = 2
  /\ wire.routes[1].key = "regex" /\ wire.routes[2].key = "group"
  /\ Unwrap(request).path = Api
  /\ result.tag = "Resolved" /\ result.route.key = "group"
  /\ result.route.matches[1].path.pattern_len = 6

\* C19: a route that names a backend the snapshot does not hold still converts, with
\* the name stored as given; a request that selects it resolves to BackendUnresolved.
Dangling(r) ==
  \E b \in Elems(r.backends) :
    b.ref = "Backend" /\ b.key \notin {x.name : x \in Elems(wire.backends)}
SelectedRoute ==
  SelectRoute(Unwrap(graph), Unwrap(SelectListener(Unwrap(graph), Unwrap(request))),
              Unwrap(request))
C19_DanglingReference ==
  (wire.type = "Snapshot" /\ IsSome(graph)) =>
    /\ \A w \in Elems(wire.routes) :
         (Dangling(w) /\ IsOk(RouteTryFrom([w EXCEPT !.backends = <<>>]))) =>
           \E r \in Elems(Unwrap(graph).routes) :
             /\ r[1].key = w.key
             /\ \A i \in 1..Len(w.backends) :
                  w.backends[i].ref = "Backend" =>
                    r[1].backends[i].backend = BackendRef(w.backends[i].key)
    /\ (Resolved /\ ListenerHit /\ IsSome(SelectedRoute)) =>
         \A w \in Elems(wire.routes) :
           (w.key = Unwrap(SelectedRoute).key /\ Dangling(w)) =>
             result.tag = "BackendUnresolved"
C19_Witness ==
  /\ Resolved /\ Len(wire.routes) = 1 /\ wire.routes[1].key = "lost"
  /\ Len(wire.backends) = 2
  /\ Unwrap(graph).routes[1][1].backends[1].backend.name = <<"g", "o", "n", "e">>
  /\ result.tag = "BackendUnresolved"

\* C20: with one HTTP listener, one route PathPrefix("/api") to backend "svcA" and
\* one Opaque backend "svcA", a request whose path starts with "/api" resolves to that
\* listener, that route and that backend; any other path resolves to NoRouteMatched,
\* which is not the outcome of a request no listener accepts.
EndToEnd ==
  /\ Resolved
  /\ Len(wire.listeners) = 1 /\ wire.listeners[1].protocol = "Http"
  /\ Len(wire.routes) = 1 /\ wire.routes[1].key = "prefix"
  /\ Len(wire.backends) = 1 /\ wire.backends[1].name = SvcA
C20_EndToEnd ==
  EndToEnd =>
    IF Unwrap(request).port # 80 THEN result.tag = "NoListenerMatched"
    ELSE IF StartsWith(Unwrap(request).path, Api)
    THEN /\ result.tag = "Resolved"
         /\ result.listener.key = "l" /\ result.listener.protocol.kind = "HTTP"
         /\ result.route.key = "prefix"
         /\ result.route.matches[1].path = [kind |-> "PathPrefix", value |-> Api]
         /\ Len(result.backends) = 1
         /\ result.backends[1].resolved = "Backend"
         /\ result.backends[1].backend.backend = "Opaque"
         /\ result.backends[1].backend.name = SvcA
         /\ result.backends[1].backend.target =
              [kind |-> "Address", host |-> "10.0.0.1", port |-> 8080]
    ELSE result.tag = "NoRouteMatched"
C20_Witness ==
  /\ EndToEnd /\ Unwrap(request).path = Api \o <<"/", "w">>
  /\ Unwrap(request).method = "GET" /\ result.tag = "Resolved"
C20_WitnessOther ==
  /\ EndToEnd /\ Unwrap(request).path = <<"/", "o", "t", "h", "e", "r">>
  /\ Unwrap(request).method = "GET" /\ result.tag = "NoRouteMatched"

\* C14: in Requests mode, from a full bucket and before a fill interval has passed,
\* the first max_tokens requests are admitted and every later one is RateLimited; a
\* completed fill interval adds tokens_per_fill tokens, never beyond max_tokens, and
\* no more requests than that are admitted after it.
WireLimit == Unwrap(wire.spec)
C14_TokenBucket ==
  (wire.type = "Policy" /\ IsSome(bucket)) =>
    LET b == Unwrap(bucket)
    IN /\ b.fills = b.now \div Unwrap(WireLimit.fill_interval)
       /\ b.fills = 0 => b.admitted = Min(b.served, WireLimit.max_tokens)
       /\ b.fills > 0 =>
            /\ b.avail = Min(WireLimit.max_tokens, b.before + WireLimit.tokens_per_fill)
            /\ b.admitted <= b.avail
       /\ \A c \in Callers :
            (callers[c].last = "RateLimited" /\ b.fills = 0) => b.tokens = 0
C14_Witness ==
  /\ wire.type = "Policy" /\ IsSome(bucket)
  /\ WireLimit.max_tokens = 5 /\ WireLimit.tokens_per_fill = 1
  /\ WireLimit.fill_interval = Some(1)
  /\ Unwrap(bucket).fills = 1 /\ Unwrap(bucket).before = 0
  /\ Unwrap(bucket).served = 7 /\ Unwrap(bucket).admitted = 1
  /\ Unwrap(bucket).tokens = 0
  /\ \E c \in Callers : callers[c].last = "RateLimited"

\* C15: under every interleaving of the requests on one bucket, the requests admitted
\* since a refill never exceed the tokens it left available, each token admits one
\* request, and the token count never falls below zero.
C15_AtomicCheckAndDecrement ==
  IsSome(bucket) =>
    /\ Unwrap(bucket).tokens >= 0
    /\ Unwrap(bucket).admitted <= Unwrap(bucket).avail
    /\ Unwrap(bucket).admitted + Unwrap(bucket).tokens = Unwrap(bucket).avail
C15_Witness ==
  /\ IsSome(bucket) /\ Unwrap(bucket).tokens = 0 /\ Unwrap(bucket).fills = 0
  /\ \E c, d \in Callers :
       /\ c # d
       /\ callers[c].pc = "idle" /\ callers[c].last = "Admitted"
       /\ callers[d].pc = "cas" /\ callers[d].seen = 1

\* C16: whatever the interleaving of the writer's swap and the requests, a request's
\* outcome is the resolution of its request against one whole graph, the one that
\* was published when the request acquired its reference, and the request keeps
\* that graph until it is done even when a newer one has been swapped in.
GraphOf(epoch) ==
  IF epoch = "old" THEN BuildGraph(OldSnapshot).val ELSE BuildGraph(wire).val
C16_OneSnapshotPerRequest ==
  \A r \in DOMAIN readers :
    readers[r].pc # "idle" =>
      /\ readers[r].held = Some(GraphOf(readers[r].epoch))
      /\ readers[r].pc = "done" =>
           readers[r].outcome =
             ResolveRequest(GraphOf(readers[r].epoch), Unwrap(readers[r].req))
C16_Witness ==
  /\ graph = Some(BuildGraph(wire).val)
  /\ \E r \in DOMAIN readers :
       /\ readers[r].pc = "done" /\ readers[r].epoch = "old"
       /\ readers[r].held # graph
       /\ readers[r].outcome.tag = "Resolved"
       /\ ResolveRequest(Unwrap(graph), Unwrap(readers[r].req)).tag = "BackendUnresolved"
  /\ \E r \in DOMAIN readers :
       readers[r].pc = "done" /\ readers[r].epoch = "new"

\* C22: a Route converts only if each of its matches, filters, backend references and
\* its traffic policy converts; when one of them fails, the conversion returns that
\* failure's error and no Route.
RoutePartFails(w, r) ==
  \/ \E i \in 1..Len(w.matches) : r = RouteMatchTryFrom(w.matches[i])
  \/ \E i \in 1..Len(w.filters) : r = RouteFilterTryFrom(w.filters[i])
  \/ \E i \in 1..Len(w.backends) : r = RouteBackendTryFrom(w.backends[i])
  \/ IsSome(w.traffic_policy) /\ r = TrafficPolicyTryFrom(Unwrap(w.traffic_policy))
RoutePartsConvert(w) ==
  /\ \A i \in 1..Len(w.matches) : IsOk(RouteMatchTryFrom(w.matches[i]))
  /\ \A i \in 1..Len(w.filters) : IsOk(RouteFilterTryFrom(w.filters[i]))
  /\ \A i \in 1..Len(w.backends) : IsOk(RouteBackendTryFrom(w.backends[i]))
  /\ IsSome(w.traffic_policy) => IsOk(TrafficPolicyTryFrom(Unwrap(w.traffic_policy)))
C22_RouteAllOrNothing ==
  Converted("Route") =>
    /\ RoutePartsConvert(wire) =>
         /\ IsOk(result)
         /\ Len(result.val[1].matches) = Len(wire.matches)
         /\ Len(result.val[1].filters) = Len(wire.filters)
         /\ Len(result.val[1].backends) = Len(wire.backends)
    /\ ~RoutePartsConvert(wire) => (IsErr(result) /\ RoutePartFails(wire, result))

\* C23: a policy converts only with a target of a known kind, a LocalRateLimit spec
\* and a fill interval. In the order the conversion looks at them: a missing target
\* or spec is MissingRequiredField, an unset target kind or spec kind is EnumParse,
\* a missing fill interval is MissingRequiredField. A converted policy has the wire
\* target's kind and name and exactly one rate limit, Request giving Requests and
\* Token giving Tokens.
MissingField == Err("MissingRequiredField", <<>>)
C23_TargetedPolicy ==
  Converted("Policy") =>
    IF ~IsSome(wire.target) \/ ~IsSome(wire.spec) THEN result = MissingField
    ELSE IF Unwrap(wire.target).kind = "Unset"
    THEN result = Err("EnumParse", <<"unknown target kind">>)
    ELSE IF Unwrap(wire.spec).kind = "Unset"
    THEN result = Err("EnumParse", <<"unknown spec kind">>)
    ELSE /\ (WireLimit.type # "Unrecognized" /\ ~IsSome(WireLimit.fill_interval)) =>
              result = MissingField
         /\ IsOk(result) =>
              /\ Unwrap(wire.target).kind \in PolicyTargetKinds
              /\ IsSome(WireLimit.fill_interval)
              /\ result.val.target = [kind |-> Unwrap(wire.target).kind,
                                      name |-> Unwrap(wire.target).name]
              /\ result.val.policy.policy = "LocalRateLimit"
              /\ Len(result.val.policy.limits) = 1
              /\ WireLimit.type = "Request" =>
                   result.val.policy.limits[1].limit_type = "Requests"
              /\ WireLimit.type = "Token" =>
                   result.val.policy.limits[1].limit_type = "Tokens"
C23_Witness ==
  /\ Converted("Policy") /\ IsOk(result)
  /\ result.val.target = [kind |-> "Backend", name |-> "gw"]
  /\ WireLimit.type = "Token" /\ result.val.policy.limits[1].limit_type = "Tokens"

\* The exchange auth_middleware has just handled, under a configuration with
\* authentication enabled, for a path that is not excluded.
AuthHandled ==
  /\ http.stage \in {"csrf", "done"}
  /\ http.calls = <<"auth_middleware">>
Guarded == wire.enabled /\ ~is_excluded_path(http.request.path)
\* validate_session accepts the token of the request's session cookie.
Accepted ==
  /\ IsSome(http.request.session_cookie)
  /\ IsOk(validate_session(Unwrap(http.request.session_cookie), http.at))
\* Reading a percent-encoded text back.
CharOf(hex) == CHOOSE c \in {"/", "+", "%", "?"} : HexOf(c) = hex
RECURSIVE UrlDecode(_)
UrlDecode(text) ==
  IF text = <<>> THEN <<>>
  ELSE IF Head(text) = "%"
    THEN <<CharOf(SubSeq(text, 2, 3))>> \o UrlDecode(SubSeq(text, 4, Len(text)))
  ELSE <<Head(text)>> \o UrlDecode(Tail(text))
ApiPrefixes ==
  {<<"/", "a", "p", "i", "/">>, <<"/", "a", "u", "t", "h", "/">>, <<"/", "c", "o", "n", "f", "i", "g">>, <<"/", "m", "e", "t", "r", "i", "c", "s">>}

\* C24: with authentication enabled and a path outside the excluded prefixes,
\* auth_middleware runs the next handler only for a request whose session cookie holds
\* a token validate_session accepts; any other request does not reach the next
\* handler and is answered 401 when its path starts with "/api/", "/auth/", "/config"
\* or "/metrics", and otherwise 302 with Location /auth/login?redirect=<path>, the
\* path being the value of the redirect parameter.
C24_AuthMiddleware ==
  (AuthHandled /\ Guarded) =>
    /\ http.stage = "csrf" => Accepted
    /\ ~Accepted =>
         /\ http.stage = "done"
         /\ LET response == Unwrap(http.response)
                path == http.request.path
            IN IF \E prefix \in ApiPrefixes : StartsWith(path, prefix)
               THEN response.status = 401
               ELSE /\ response.status = 302
                    /\ StartsWith(response.location, LoginRedirect)
                    /\ UrlDecode(SubSeq(response.location, Len(LoginRedirect) + 1,
                                        Len(response.location))) = path
C24_Witness ==
  /\ AuthHandled /\ Guarded
  /\ http.request.session_cookie = Some(<<ForgedToken>>)
  /\ http.request.path = <<"/", "a", "+", "b">>
  /\ Unwrap(http.response).status = 302
C24_WitnessNext ==
  /\ AuthHandled /\ Guarded /\ Accepted
  /\ http.stage = "csrf"
  /\ IsSome(http.extension)

\* The request's session cookie holds a token the manager signed.
OwnToken ==
  /\ IsSome(http.request.session_cookie)
  /\ Unwrap(http.request.session_cookie) # <<>>
  /\ Unwrap(http.request.session_cookie)[1].signed
PresentedClaims == Unwrap(http.request.session_cookie)[1].claims
LogoutCookieAdded ==
  \E i \in 1..Len(http.cookies) :
    /\ http.cookies[i].name = "agentgateway_session"
    /\ http.cookies[i].value = <<>>
    /\ http.cookies[i].max_age = 0

\* C25: whenever auth_middleware receives a session cookie whose token has expired,
\* its expires_at being at or before the current time by any amount, it adds the
\* logout cookie (empty value, max-age 0).
C25_ExpiredCookieRemoved ==
  (AuthHandled /\ Guarded /\ OwnToken /\ PresentedClaims.exp <= http.at)
    => LogoutCookieAdded
\* The same for a token that expired no longer ago than the leeway.
C25_WithinLeeway ==
  (AuthHandled /\ Guarded /\ OwnToken /\ PresentedClaims.exp <= http.at
     /\ http.at <= PresentedClaims.exp + Leeway)
    => LogoutCookieAdded
C25_WitnessWithinLeeway ==
  /\ AuthHandled /\ Guarded /\ OwnToken
  /\ http.at = PresentedClaims.exp + Leeway
  /\ LogoutCookieAdded

\* The exchange a handler has just answered.
Answered(handler) == http.stage = "done" /\ http.handler = handler
SessionCookieSet ==
  \E i \in 1..Len(http.cookies) :
    /\ http.cookies[i].name = "agentgateway_session"
    /\ http.cookies[i].value # <<>>
    /\ http.cookies[i].max_age > 0
\* The login names a user of the file whose password is the one given.
Authenticates(req) ==
  \E i \in 1..Len(FileUsers) :
    /\ FileUsers[i].username = req.username
    /\ FileUsers[i].password_hash.parses
    /\ FileUsers[i].password_hash.of = req.password
IsEnabled(req) ==
  \E i \in 1..Len(FileUsers) : FileUsers[i].username = req.username /\ FileUsers[i].enabled
CsrfMatches(req, cookies) ==
  IsSome(req.csrf_token) => cookies["csrf_token"] = <<Unwrap(req.csrf_token)>>

C26_WitnessUnchecked ==
  /\ Answered("login_submit")
  /\ SessionCookieSet
  /\ ~IsSome(http.request.csrf_token)
  /\ http.presented["csrf_token"] # <<>>
C26_WitnessCsrf ==
  /\ Answered("login_submit")
  /\ Authenticates(http.request) /\ IsEnabled(http.request)
  /\ ~CsrfMatches(http.request, http.presented)
  /\ ~SessionCookieSet

\* The exchange csrf_middleware has just handled.
CsrfHandled ==
  /\ http.stage \in {"next", "done"}
  /\ http.handler = "page"
  /\ Len(http.calls) = 2
StateChanging == http.request.method \in {"POST", "PUT", "DELETE", "PATCH"}

\* C27: with CSRF protection enabled, a POST, PUT, DELETE or PATCH request carrying a
\* UserSession reaches the next handler only if its X-CSRF-Token header equals the
\* session's csrf_token and is otherwise answered 403; a request with another method,
\* and a state-changing request without a UserSession, reach the next handler.
C27_CsrfMiddleware ==
  (CsrfHandled /\ wire.csrf_protection) =>
    IF StateChanging /\ IsSome(http.extension)
    THEN IF http.request.csrf_header = Some(Unwrap(http.extension).csrf_token)
         THEN http.stage = "next"
         ELSE http.stage = "done" /\ Unwrap(http.response).status = 403
    ELSE http.stage = "next"
C27_Witness ==
  /\ CsrfHandled /\ wire.csrf_protection
  /\ StateChanging /\ IsSome(http.extension)
  /\ IsSome(http.request.csrf_header)
  /\ http.request.csrf_header # Some(Unwrap(http.extension).csrf_token)
  /\ Unwrap(http.response).status = 403
C27_WitnessAccepted ==
  /\ CsrfHandled /\ wire.csrf_protection
  /\ StateChanging /\ IsSome(http.extension)
  /\ http.request.csrf_header = Some(Unwrap(http.extension).csrf_token)
  /\ http.stage = "next"
C27_WitnessNoSession ==
  /\ CsrfHandled /\ wire.csrf_protection
  /\ StateChanging /\ ~IsSome(http.extension)
  /\ http.stage = "next"

\* A state-changing request that presents a session token validate_session accepts
\* and, as X-CSRF-Token, the CSRF token issued in that token.
OwnCsrfToken ==
  /\ StateChanging /\ OwnToken /\ Accepted
  /\ http.request.csrf_header = Some(PresentedClaims.csrf_token)

\* C28: a state-changing request presenting a valid session token together with the
\* CSRF token issued with that session is accepted by csrf_middleware in every
\* reachable state, also on the request on which auth_middleware refreshes the session.
C28_OwnCsrfTokenAccepted ==
  (CsrfHandled /\ OwnCsrfToken) => http.stage = "next"
\* The same on requests that come with more than refresh_threshold left.
C28_WithoutRefresh ==
  (CsrfHandled /\ OwnCsrfToken /\ PresentedClaims.exp - now > RefreshThreshold)
    => http.stage = "next"
C28_WitnessWithoutRefresh ==
  /\ CsrfHandled /\ OwnCsrfToken /\ Guarded /\ wire.csrf_protection
  /\ PresentedClaims.exp - now > RefreshThreshold
  /\ http.stage = "next"

Called(call) == \E i \in 1..Len(http.calls) : http.calls[i] = call
CookieRemoved(name) ==
  \E i \in 1..Len(http.cookies) :
    http.cookies[i].name = name /\ http.cookies[i].max_age = 0
LoginPage(error) == Redirect(<<"/auth/login?error=" \o error>>)

\* C29: handle_oauth2_callback creates a session only when the state parameter equals
\* the oauth2_state cookie that handle_oauth2_login set; a missing cookie or a
\* mismatch redirects to the login page without exchanging the code or creating a
\* session; an error parameter redirects before any other step; a missing code or
\* state gives 400; on success the session cookie is set and the oauth2_state cookie
\* is removed.
C29_OAuth2Callback ==
  Answered("oauth2_callback") =>
    LET params == http.request.params
        cookie == http.presented["oauth2_state"]
        response == Unwrap(http.response)
        untouched == http.calls = <<>> /\ http.cookies = <<>>
    IN /\ (Called("create_session") \/ SessionCookieSet)
            => /\ IsSome(params.state)
               /\ cookie = <<Unwrap(params.state)>>
               /\ \E s \in OAuth2States : cookie = <<s>>
       /\ IsSome(params.error)
            => response = LoginPage("oauth2_error") /\ untouched
       /\ (~IsSome(params.error) /\ (~IsSome(params.code) \/ ~IsSome(params.state)))
            => response.status = 400 /\ untouched
       /\ (~IsSome(params.error) /\ IsSome(params.code) /\ IsSome(params.state))
            => /\ cookie = <<>> => response = LoginPage("missing_state") /\ untouched
               /\ (cookie # <<>> /\ cookie # <<Unwrap(params.state)>>)
                    => response = LoginPage("invalid_state") /\ untouched
       /\ response = Redirect(<<"/">>)
            => SessionCookieSet /\ CookieRemoved("oauth2_state")
C29_Witness ==
  /\ Answered("oauth2_callback")
  /\ Unwrap(http.response) = Redirect(<<"/">>)
  /\ SessionCookieSet /\ CookieRemoved("oauth2_state")
  /\ client["oauth2_state"] = <<>>
  /\ client["agentgateway_session"] # <<>>
C29_WitnessMismatch ==
  /\ Answered("oauth2_callback")
  /\ Unwrap(http.response) = LoginPage("invalid_state")
  /\ http.presented["oauth2_state"] # <<>>
C29_WitnessMissing ==
  /\ Answered("oauth2_callback")
  /\ Unwrap(http.response) = LoginPage("missing_state")
  /\ client["oauth2_state"] # <<>>

\* The fields of a session that a refresh leaves alone.
Identity(s) ==
  <<s.session_id, s.user_id, s.username, s.email, s.roles, s.auth_method, s.metadata,
    s.created_at>>

\* C30: refresh_session issues a new token only when the time until expiry is at most
\* refresh_threshold, and returns the session unchanged with an empty token when it
\* is larger; a refreshed session keeps session_id, user_id, username, email, roles,
\* auth_method, metadata and created_at and expires at now + max_age; a session whose
\* expires_at is in the past yields SessionExpired and is not extended.
C30_RefreshSession ==
  (IsSome(request) /\ result.tag # "Pending") =>
    LET session == Unwrap(request).session
        t == Unwrap(request).at
    IN IF session.expires_at < t
       THEN result = Err("SessionExpired", <<>>) /\ client = session
       ELSE IF session.expires_at - t > RefreshThreshold
       THEN result = Ok([session |-> session, token |-> <<>>])
       ELSE /\ IsOk(result)
            /\ result.val.token # <<>>
            /\ Identity(result.val.session) = Identity(session)
            /\ result.val.session.expires_at = t + MaxAge
            /\ Decode(result.val.token, t).val.exp = t + MaxAge
C30_Witness ==
  /\ IsSome(request) /\ IsOk(result)
  /\ Unwrap(request).session.expires_at - Unwrap(request).at = RefreshThreshold
  /\ result.val.token # <<>>
  /\ result.val.session.expires_at = Unwrap(request).at + MaxAge
C30_WitnessExpired ==
  /\ IsSome(request) /\ IsErr(result)
  /\ Unwrap(request).session.expires_at < Unwrap(request).at
C30_WitnessUnchanged ==
  /\ IsSome(request) /\ IsOk(result)
  /\ Unwrap(request).session.expires_at - Unwrap(request).at = RefreshThreshold + 1
  /\ result.val.token = <<>>
====
